---- MODULE Spec2Model ----
(***************************************************************************)
(* The issue-occupying contest tracker: the client layer (AppContext.tsx:  *)
(* occupyIssue, closeIssue, updatePrStatus, checkExpiredIssues and the     *)
(* change feed) and the data-access layer (firebaseService:                *)
(* occupyIssueTransaction with its team issue count cache) over a          *)
(* document store holding the issues and the teams.                        *)
(*                                                                         *)
(* Time.  Every instant the program stores (occupiedAt, a cache entry's    *)
(* timestamp, the start of a timer) is kept as the time elapsed since that *)
(* instant, so that Date.now() - x is the stored value of x; Tick adds the *)
(* time that passes to all of them.  An elapsed time stops growing at the  *)
(* largest threshold the code compares it with, which keeps every          *)
(* comparison of the code exact.                                           *)
(*                                                                         *)
(* Messages.  An error message is the sequence of its lower-case words;    *)
(* String.includes is the search for a phrase in that sequence.            *)
(***************************************************************************)
EXTENDS Integers, Sequences, FiniteSets, TLC

VARIABLES
  issuesDb,             \* the store's issues collection: id -> document
  teamsDb,              \* the store's teams collection: name -> document
  currentTeam,          \* per client: useState currentTeam (a team name or NULL)
  issues,               \* per client: useState issues (the local issue list)
  teams,                \* per client: useState teams (the local team list)
  teamIssueCountCache,  \* per client: the module-level Map of occupyIssueTransaction
  calls,                \* the occupyIssue calls (AppContext), by call slot
  invs,                 \* the occupyIssueTransaction invocations, by call and attempt
  issuesDirty,          \* per client: the issues collection changed since the last
                        \* snapshot the client's listener delivered
  teamsDirty,           \* per client: the same for the teams collection
  intervalAge,          \* per client: time since setInterval(checkExpiredIssues) was set
  sweep,                \* per client: the running checkExpiredIssues pass, or NULL
  ticks,                \* number of Tick steps taken (bounds the exploration)
  txCommits,            \* history: per issue, the transactions that committed since
                        \* the issue was last open
  deductions,           \* history: per issue, the penalties deducted since it was
                        \* last claimed
  feed                  \* per client and collection: the onSnapshot listeners of the
                        \* subscription, its pending re-subscription, and the
                        \* metadata of the last snapshot raised and delivered

vars == <<issuesDb, teamsDb, currentTeam, issues, teams, teamIssueCountCache,
          calls, invs, issuesDirty, teamsDirty, intervalAge, sweep, ticks,
          txCommits, deductions, feed>>

NULL == "null"
\* null in a numeric field (occupiedAt).
NoInstant == 0 - 1

Min(a, b) == IF a < b THEN a ELSE b
Max(a, b) == IF a > b THEN a ELSE b

(***************************************************************************)
(* Bounds of the exploration.                                              *)
(***************************************************************************)
MaxCalls == 2      \* occupyIssue calls started in one behaviour
MaxTicks == 3      \* Tick steps in one behaviour
MaxPoints == 40    \* no award is applied above this many stored points
MaxDeductions == 2 \* the history of deductions counts up to this many per claim

(***************************************************************************)
(* Program constants.                                                      *)
(***************************************************************************)
CACHE_TTL == 5000
TIMEOUT_MS == 10000
MAX_RETRIES == 1
QUOTA == 3
SWEEP_INTERVAL == 10000
MINUTE == 60000

ALLOWED_TEAMS == {"TeamBravo", "TeamCharlie"}
Clients == {"c1", "c2"}
CallIds == 1..MaxCalls
Attempts == 1..(MAX_RETRIES + 1)

\* timeouts[tag] || timeouts.medium
timeouts(tag) ==
  CASE tag = "easy" -> 20 * MINUTE
    [] tag = "medium" -> 40 * MINUTE
    [] tag = "hard" -> 60 * MINUTE
    [] OTHER -> 40 * MINUTE

penaltiesDefaultMedium(tag) ==
  CASE tag = "easy" -> 5
    [] tag = "medium" -> 10
    [] tag = "hard" -> 15
    [] OTHER -> 10

\* penalties[tag] || 0
penalties(tag) ==
  CASE tag = "easy" -> 5
    [] tag = "medium" -> 10
    [] tag = "hard" -> 15
    [] OTHER -> 0

\* pointsMap[tag] || 0
pointsMap(tag) ==
  CASE tag = "easy" -> 10
    [] tag = "medium" -> 20
    [] tag = "hard" -> 30
    [] OTHER -> 0

\* The largest elapsed time the code compares occupiedAt with.
MaxAge == 60 * MINUTE

(***************************************************************************)
(* Messages.                                                               *)
(***************************************************************************)
MsgNotLoggedIn == <<"you", "must", "be", "logged", "in", "to", "occupy", "an", "issue">>
MsgOffline == <<"no", "internet", "connection">>
MsgNotFoundLocal == <<"issue", "not", "found">>
MsgAlready(status) ==
  <<"this", "issue", "is", "already", status, "please", "choose", "another", "issue">>
MsgQuota ==
  <<"your", "team", "has", "already", "occupied", "3", "issues", "please", "close",
    "an", "issue", "before", "occupying", "a", "new", "one">>
MsgSelf == <<"your", "team", "is", "already", "assigned", "to", "this", "issue">>
MsgRequired == <<"issue", "id", "and", "team", "name", "are", "required">>
MsgNotFound == <<"issue", "not", "found">>
MsgNoLongerExists == <<"issue", "no", "longer", "exists">>
MsgTimedOut == <<"transaction", "timed", "out", "please", "try", "again">>
MsgAfterRetries ==
  <<"transaction", "failed", "after", "retries", "please", "check", "your",
    "connection", "and", "try", "again">>
MsgPermission == <<"you", "do", "not", "have", "permission", "to", "occupy", "this", "issue">>
MsgPrecondition ==
  <<"the", "issue", "status", "has", "changed", "please", "refresh", "and", "try", "again">>
MsgUnavailable ==
  <<"the", "service", "is", "temporarily", "unavailable", "please", "try", "again",
    "in", "a", "moment">>
MsgFailed == <<"failed", "to", "occupy", "issue", "please", "try", "again">>
\* The message of the ReferenceError that the assignment `lastError = error` raises:
\* lastError is declared by `let` further down the same block (line 651), so at
\* line 622 the binding is not yet initialized.
MsgReferenceError == <<"cannot", "access", "lasterror", "before", "initialization">>

\* String.prototype.includes, on word sequences.
Includes(msg, phrase) ==
  \E i \in 1..(Len(msg) - Len(phrase) + 1) :
    SubSeq(msg, i, i + Len(phrase) - 1) = phrase

transientIndicators ==
  { <<"timed", "out">>, <<"network">>, <<"transport", "errored">>,
    <<"could", "not", "reach">>, <<"err_internet_disconnected">>,
    <<"err_network_changed">>, <<"quic">> }

isTransientAlways(errMsg) == TRUE

isTransientNever(errMsg) == FALSE

\* Line 373: transientIndicators.some(ind => errMsg.includes(ind))
isTransient(errMsg) == \E ind \in transientIndicators : Includes(errMsg, ind)

\* A write to a collection is news for every client's listener.
AllDirty == [c \in Clients |-> TRUE]

Success == [success |-> TRUE, error |-> <<>>]
Failure(msg) == [success |-> FALSE, error |-> msg]

(***************************************************************************)
(* The store.                                                              *)
(***************************************************************************)
\* createIssue({...issue, status: 'open', assignedTo: null}) as addIssue calls it.
OpenIssue(tag) ==
  [status |-> "open", assignedTo |-> NULL, occupiedAt |-> NoInstant, closedAt |-> NULL,
   prStatus |-> NULL, prUrl |-> NULL, lastUpdated |-> NULL, tag |-> tag]

\* An issue a team holds: what a committed transaction leaves, after `age` ms.
HeldIssue(tag, team, age) ==
  [OpenIssue(tag) EXCEPT !.status = "occupied", !.assignedTo = team,
                         !.occupiedAt = age, !.lastUpdated = "set"]

\* initializeTeams writes {name, points: 0, active: false}; points are earned later.
TeamDoc(points) == [points |-> points, active |-> FALSE]

\* updateDoc(ref, updates): the named fields are overwritten, the others kept.
Merge(doc, updates) ==
  [f \in DOMAIN doc |-> IF f \in DOMAIN updates THEN updates[f] ELSE doc[f]]

updateIssue(db, issueId, updates) == [db EXCEPT ![issueId] = Merge(@, updates)]

updateTeam(db, teamName, updates) == [db EXCEPT ![teamName] = Merge(@, updates)]

\* where('assignedTo', '==', teamName), where('status', '==', 'occupied')
teamOccupied(db, teamName) ==
  {i \in DOMAIN db : db[i].assignedTo = teamName /\ db[i].status = "occupied"}

\* The size of the snapshot of that query under limit(3).
teamCurrentIssuesSize(db, teamName) == Min(QUOTA, Cardinality(teamOccupied(db, teamName)))

\* issues.filter(i => i.assignedTo === currentTeam.name && i.status === 'occupied').length
teamOccupiedCount(list, teamName) == Cardinality(teamOccupied(list, teamName))

(***************************************************************************)
(* occupyIssueTransaction: the function passed to runTransaction.  The     *)
(* store runs it atomically on the issue document; it throws or yields the *)
(* update to write.                                                        *)
(***************************************************************************)
TransactionBodyNoStatusCheck(exists, doc, teamName) ==
  IF ~exists THEN [thrown |-> TRUE, message |-> MsgNoLongerExists]
  ELSE IF doc.assignedTo = teamName
    THEN [thrown |-> TRUE, message |-> MsgSelf]
    ELSE [thrown |-> FALSE, message |-> <<>>]

\* Lines 585-597: the checks of the transaction function, in the order of the code.
TransactionBody(exists, doc, teamName) ==
  IF ~exists THEN [thrown |-> TRUE, message |-> MsgNoLongerExists]
  ELSE IF doc.status # "open"
    THEN [thrown |-> TRUE, message |-> MsgAlready(doc.status)]
    ELSE IF doc.assignedTo = teamName
      THEN [thrown |-> TRUE, message |-> MsgSelf]
      ELSE [thrown |-> FALSE, message |-> <<>>]

TransactionUpdateStatusOnly(teamName) == [status |-> "occupied"]

TransactionUpdateUnassigned(teamName) ==
  [status |-> "occupied", assignedTo |-> NULL, occupiedAt |-> 0, lastUpdated |-> "set"]

\* transaction.update(issueRef, {status, assignedTo, occupiedAt, lastUpdated})
TransactionUpdate(teamName) ==
  [status |-> "occupied", assignedTo |-> teamName, occupiedAt |-> 0, lastUpdated |-> "set"]

(***************************************************************************)
(* occupyIssueTransaction: its two catch blocks.                           *)
(***************************************************************************)
\* An error object: the store's errors carry a code, `new Error(...)` does not.
Error(code, message) == [code |-> code, message |-> message]

\* catch (error) of the function body (lines 706-735).
OuterCatch(error) ==
  CASE error.code = "permission-denied" -> Failure(MsgPermission)
    [] error.code = "failed-precondition" -> Failure(MsgPrecondition)
    [] error.code \in {"unavailable", "deadline-exceeded"} -> Failure(MsgUnavailable)
    [] OTHER -> Failure(IF error.message = <<>> THEN MsgFailed ELSE error.message)

LoopCatchNoResult(error) == Failure(<<>>)

\* catch (error) of the retry loop (lines 621-636).  Its first statement assigns to
\* lastError, which the enclosing block declares with `let` only at line 651: the
\* assignment raises a ReferenceError, which leaves the loop and reaches the outer
\* catch.  The test for 'already' and the backoff below it are never reached.
LoopCatch(error) == OuterCatch(Error(NULL, MsgReferenceError))

(***************************************************************************)
(* occupyIssue (AppContext): the local pre-checks and the optimistic       *)
(* update.                                                                 *)
(***************************************************************************)
LocalPreCheckNoQuota(team, list, issueId) ==
  IF team = NULL THEN MsgNotLoggedIn
  ELSE IF issueId \notin DOMAIN list THEN MsgNotFoundLocal
  ELSE IF list[issueId].status # "open" THEN MsgAlready(list[issueId].status)
  ELSE <<>>

\* Lines 291-293 and 305-322: the message the call returns before anything is
\* changed, or <<>>.
LocalPreCheck(team, list, issueId) ==
  IF team = NULL THEN MsgNotLoggedIn
  ELSE IF issueId \notin DOMAIN list THEN MsgNotFoundLocal
  ELSE IF list[issueId].status # "open" THEN MsgAlready(list[issueId].status)
  ELSE IF teamOccupiedCount(list, team) >= QUOTA THEN MsgQuota
  ELSE <<>>

\* Lines 291-322, with the test of window.navigator.onLine (lines 299-303) that
\* comes second.
Rejection(team, onLine, list, issueId) ==
  IF team = NULL THEN MsgNotLoggedIn
  ELSE IF ~onLine THEN MsgOffline
  ELSE LocalPreCheck(team, list, issueId)

\* Lines 328-333: prev.map(i => i.id === issueId ? {...i, status, assignedTo, occupiedAt} : i)
Optimistic(list, issueId, team) ==
  [i \in DOMAIN list |->
     IF i = issueId
       THEN [list[i] EXCEPT !.status = "occupied", !.assignedTo = team, !.occupiedAt = 0]
       ELSE list[i]]

NoCall ==
  [pc |-> "idle", client |-> NULL, issueId |-> NULL, teamName |-> NULL,
   previousIssues |-> <<>>, attempt |-> 0, backoffLeft |-> 0,
   result |-> Failure(<<>>), held |-> 0, onLine |-> TRUE]

NoCached == [hit |-> FALSE, count |-> 0, timestamp |-> 0]

NoInv ==
  [pc |-> "none", cachedCount |-> NoCached, wrapAge |-> 0, ctAge |-> 0,
   countAtCommit |-> 0, result |-> Failure(<<>>)]

\* occupyIssueTransaction(issueId, teamName) up to its first await (lines 521-531),
\* and the timer of the wrapping promise (lines 351-355).
StartInv == [NoInv EXCEPT !.pc = "getDoc"]

\* The wrapper awaits attempt a of call k.
Awaited(k, a) == calls[k].pc = "waiting" /\ calls[k].attempt = a

RevertStatusOnly(list, previousIssues) ==
  [i \in DOMAIN list |-> [list[i] EXCEPT !.status = previousIssues[i].status]]

\* setIssues(previousIssues), lines 395-399.
Revert(list, previousIssues) == previousIssues

\* Lines 367-388 and 391-401: what occupyIssue does with the outcome of the attempt
\* it awaits.  A transient failure backs off and retries while attempt <= MAX_RETRIES;
\* any other outcome ends the call, and a failure reverts the optimistic update.
Wrapped(k, res) ==
  LET c == calls[k].client
      retry == ~res.success /\ isTransient(res.error) /\ calls[k].attempt <= MAX_RETRIES
      final == IF res.success \/ ~isTransient(res.error) THEN res
               ELSE Failure(MsgAfterRetries)
  IN IF retry
       THEN /\ calls' = [calls EXCEPT ![k].pc = "backoff",
                                      ![k].backoffLeft = 500 * calls[k].attempt]
            /\ UNCHANGED <<issues, intervalAge>>
       ELSE /\ calls' = [calls EXCEPT ![k].pc = "done", ![k].result = final,
                                      ![k].previousIssues = <<>>]
            /\ IF final.success
                 THEN UNCHANGED <<issues, intervalAge>>
                 ELSE /\ issues' = [issues EXCEPT ![c] = Revert(@, calls[k].previousIssues)]
                      /\ intervalAge' = [intervalAge EXCEPT ![c] = 0]

SettleAlways(k, a, res) == Wrapped(k, res)

\* Attempt a of call k settles with res: the wrapper acts on it when it still awaits
\* this attempt; an attempt it gave up on (timed out) settles unobserved.
Settle(k, a, res) ==
  IF Awaited(k, a) THEN Wrapped(k, res) ELSE UNCHANGED <<calls, issues, intervalAge>>

\* The timer of the wrapper wins against an answer that comes at or after TIMEOUT_MS.
InTime(k, a) == Awaited(k, a) => invs[k][a].wrapAge < TIMEOUT_MS

\* occupyIssue(issueId) called at client c, whose window.navigator.onLine is onLine.
occupyIssueWith(k, c, issueId, onLine) ==
  /\ calls[k].pc = "idle"
  /\ \A j \in CallIds : j < k => calls[j].pc # "idle"
  /\ LET team == currentTeam[c]
         msg == Rejection(team, onLine, issues[c], issueId)
     IN IF msg # <<>>
          THEN /\ calls' = [calls EXCEPT ![k] = [NoCall EXCEPT !.pc = "done", !.client = c,
                                 !.issueId = issueId, !.teamName = team,
                                 !.result = Failure(msg), !.onLine = onLine,
                                 !.held = teamOccupiedCount(issuesDb, team)]]
               /\ UNCHANGED <<issues, invs, intervalAge>>
          ELSE /\ calls' = [calls EXCEPT ![k] = [NoCall EXCEPT !.pc = "waiting", !.client = c,
                                 !.issueId = issueId, !.teamName = team,
                                 !.previousIssues = issues[c], !.attempt = 1,
                                 !.held = teamOccupiedCount(issuesDb, team)]]
               /\ issues' = [issues EXCEPT ![c] = Optimistic(@, issueId, team)]
               /\ invs' = [invs EXCEPT ![k][1] = StartInv]
               /\ intervalAge' = [intervalAge EXCEPT ![c] = 0]
  /\ UNCHANGED <<issuesDb, teamsDb, currentTeam, teams, teamIssueCountCache, sweep,
                 ticks, txCommits, deductions, issuesDirty, teamsDirty>>
  /\ UNCHANGED feed

\* occupyIssue(issueId) called at a client that is on line.
occupyIssue(k, c, issueId) == occupyIssueWith(k, c, issueId, TRUE)

\* The wrapper's timer fires (lines 352-355): the attempt it awaits has not settled.
Timeout(k) ==
  /\ calls[k].pc = "waiting"
  /\ invs[k][calls[k].attempt].pc \notin {"none", "done"}
  /\ invs[k][calls[k].attempt].wrapAge >= TIMEOUT_MS
  /\ Wrapped(k, Failure(MsgTimedOut))
  /\ UNCHANGED <<issuesDb, teamsDb, currentTeam, teams, teamIssueCountCache, invs, sweep,
                 ticks, txCommits, deductions, issuesDirty, teamsDirty>>
  /\ UNCHANGED feed

\* The backoff is over (line 384): the loop runs again, attempt += 1.
Retry(k) ==
  /\ calls[k].pc = "backoff"
  /\ calls[k].backoffLeft = 0
  /\ calls' = [calls EXCEPT ![k].pc = "waiting", ![k].attempt = @ + 1]
  /\ invs' = [invs EXCEPT ![k][calls[k].attempt + 1] = StartInv]
  /\ UNCHANGED <<issuesDb, teamsDb, currentTeam, issues, teams, teamIssueCountCache,
                 intervalAge, sweep, ticks, txCommits, deductions, issuesDirty, teamsDirty>>
  /\ UNCHANGED feed

(***************************************************************************)
(* occupyIssueTransaction (firebaseService), one step per await.           *)
(***************************************************************************)
\* teamIssueCountCache.get(teamName), with currentTime = Date.now() taken now.
CacheGet(cache, teamName) ==
  IF teamName \in DOMAIN cache
    THEN [hit |-> TRUE, count |-> cache[teamName].count,
          timestamp |-> cache[teamName].timestamp]
    ELSE NoCached

\* teamIssueCountCache.set(teamName, {count, timestamp})
CacheSet(cache, teamName, count, timestamp) ==
  [t \in DOMAIN cache \cup {teamName} |->
     IF t = teamName THEN [count |-> count, timestamp |-> timestamp] ELSE cache[t]]

CachedAlways(cached) == cached.hit

\* cachedCount && (currentTime - cachedCount.timestamp) < CACHE_TTL
CachedFresh(cached) == cached.hit /\ cached.timestamp < CACHE_TTL

\* Lines 525-527: if (!issueId || !teamName); <<>> when the inputs pass.
InputCheck(issueId, teamName) ==
  IF issueId = "" \/ teamName = "" THEN MsgRequired ELSE <<>>

PreCheckQuotaFirst(exists, doc, cached) ==
  IF ~exists THEN MsgNotFound
  ELSE IF CachedFresh(cached) /\ cached.count >= QUOTA THEN MsgQuota
  ELSE IF doc.status # "open" THEN MsgAlready(doc.status)
  ELSE <<>>

\* Lines 533-553: the checks between getDoc and the retry loop; <<>> when they pass.
PreCheck(exists, doc, cached) ==
  IF ~exists THEN MsgNotFound
  ELSE IF doc.status # "open" THEN MsgAlready(doc.status)
  ELSE IF CachedFresh(cached) /\ cached.count >= QUOTA THEN MsgQuota
  ELSE <<>>

\* Lines 610-617: after a committed transaction the entry, if any, is incremented.
CacheIncrement(cache, teamName, currentTimeAge) ==
  IF teamName \in DOMAIN cache
    THEN CacheSet(cache, teamName, cache[teamName].count + 1, currentTimeAge)
    ELSE cache

\* The invocation ends: its promise resolves with res.
Return(k, a, res) ==
  /\ invs' = [invs EXCEPT ![k][a] = [NoInv EXCEPT !.pc = "done", !.result = res]]
  /\ Settle(k, a, res)

\* await getDoc(issueRef) answers (line 531), then lines 533-559.
GetDoc(k, a) ==
  /\ invs[k][a].pc = "getDoc"
  /\ InTime(k, a)
  /\ LET iid == calls[k].issueId
         c == calls[k].client
         cached == CacheGet(teamIssueCountCache[c], calls[k].teamName)
         msg == PreCheck(iid \in DOMAIN issuesDb, issuesDb[iid], cached)
     IN IF msg # <<>>
          THEN Return(k, a, Failure(msg))
          ELSE /\ invs' = [invs EXCEPT ![k][a] =
                             [@ EXCEPT !.pc = IF CachedFresh(cached) THEN "tx" ELSE "query",
                                       !.cachedCount = cached, !.ctAge = 0]]
               /\ UNCHANGED <<calls, issues, intervalAge>>
  /\ UNCHANGED <<issuesDb, teamsDb, currentTeam, teams, teamIssueCountCache, sweep,
                 ticks, txCommits, deductions, issuesDirty, teamsDirty>>
  /\ UNCHANGED feed

\* await getDocs(teamCurrentIssues) answers (line 568), then lines 569-581.
Query(k, a) ==
  /\ invs[k][a].pc = "query"
  /\ InTime(k, a)
  /\ LET c == calls[k].client
         team == calls[k].teamName
         size == teamCurrentIssuesSize(issuesDb, team)
     IN IF size >= QUOTA
          THEN /\ Return(k, a, Failure(MsgQuota))
               /\ UNCHANGED teamIssueCountCache
          ELSE /\ teamIssueCountCache' =
                    [teamIssueCountCache EXCEPT
                       ![c] = CacheSet(@, team, size, invs[k][a].ctAge)]
               /\ invs' = [invs EXCEPT ![k][a].pc = "tx"]
               /\ UNCHANGED <<calls, issues, intervalAge>>
  /\ UNCHANGED <<issuesDb, teamsDb, currentTeam, teams, sweep, ticks, txCommits,
                 deductions, issuesDirty, teamsDirty>>
  /\ UNCHANGED feed

\* await runTransaction(...) answers (lines 584-619): the store has run the
\* transaction function on the document as it is now.
RunTransaction(k, a) ==
  /\ invs[k][a].pc = "tx"
  /\ InTime(k, a)
  /\ LET iid == calls[k].issueId
         c == calls[k].client
         team == calls[k].teamName
         body == TransactionBody(iid \in DOMAIN issuesDb, issuesDb[iid], team)
     IN IF body.thrown
          THEN /\ Return(k, a, LoopCatch(Error(NULL, body.message)))
               /\ UNCHANGED <<issuesDb, teamIssueCountCache, txCommits, deductions,
                              issuesDirty>>
          ELSE /\ issuesDb' = updateIssue(issuesDb, iid, TransactionUpdate(team))
               /\ teamIssueCountCache' =
                    [teamIssueCountCache EXCEPT
                       ![c] = CacheIncrement(@, team, invs[k][a].ctAge)]
               /\ txCommits' = [txCommits EXCEPT ![iid] = @ + 1]
               /\ deductions' = [deductions EXCEPT ![iid] = 0]
               /\ issuesDirty' = AllDirty
               /\ Return(k, a, Success)
  /\ UNCHANGED <<teamsDb, currentTeam, teams, sweep, ticks, teamsDirty>>
  /\ UNCHANGED feed

(***************************************************************************)
(* The subscriptions (firebaseService: subscribeToIssues, subscribeToTeams *)
(* and subscribeToRepositories).  Of each collection a client has the      *)
(* listener its subscriptions effect holds the handle of (tracked) and the *)
(* listeners a re-subscription has made, whose handles nobody holds        *)
(* (leaked).                                                               *)
(***************************************************************************)
Feeds == {"issues", "teams", "repositories"}

\* The setTimeout of the error callback of subscribeToIssues.
RESUBSCRIBE_DELAY == 5000

Listener ==
  [tracked |-> 1, leaked |-> 0, timer |-> NoInstant, fromCache |-> FALSE,
   calledFromCache |-> FALSE]

NoFeed == [f \in Feeds |-> Listener]

\* `if (!snapshot.metadata.fromCache) callback(issues)`: of the three next
\* callbacks, only the one of subscribeToIssues looks at the metadata.
filtersFromCache(f) == f = "issues"

\* Of the three subscriptions, only subscribeToIssues passes an error callback.
resubscribes(f) == f = "issues"

\* The next callback of the listener of f calls the subscriber's callback.
Invoked(f, fromCache) == ~(filtersFromCache(f) /\ fromCache)

\* The SDK raises a snapshot on the listeners of f.
Raise(fc, f, fromCache) ==
  [fc EXCEPT ![f].fromCache = fromCache,
             ![f].calledFromCache = IF Invoked(f, fromCache) THEN fromCache ELSE @]

\* The subscriptions effect runs again (its dependencies are isInitialized and
\* currentTeam): the cleanup unsubscribes the three listeners it holds the handles
\* of, and three new listeners are made.
Resubscribed(fc) == [f \in Feeds |-> [fc[f] EXCEPT !.tracked = 1]]

(***************************************************************************)
(* Time.                                                                   *)
(***************************************************************************)
Older(age, d, cap) == IF age = NoInstant THEN NoInstant ELSE Min(cap, age + d)

OlderIssues(list, d) ==
  [i \in DOMAIN list |-> [list[i] EXCEPT !.occupiedAt = Older(@, d, MaxAge)]]

OlderFeed(fc, d) ==
  [f \in Feeds |-> [fc[f] EXCEPT !.timer = Older(@, d, RESUBSCRIBE_DELAY)]]

OlderCache(cache, d) ==
  [t \in DOMAIN cache |-> [cache[t] EXCEPT !.timestamp = Older(@, d, CACHE_TTL)]]

\* d milliseconds pass.
Pass(d) ==
  /\ issuesDb' = OlderIssues(issuesDb, d)
  /\ issues' = [c \in Clients |-> OlderIssues(issues[c], d)]
  /\ teamIssueCountCache' = [c \in Clients |-> OlderCache(teamIssueCountCache[c], d)]
  /\ calls' = [k \in CallIds |->
                 [calls[k] EXCEPT !.previousIssues = OlderIssues(@, d),
                                  !.backoffLeft = Max(0, @ - d)]]
  /\ invs' = [k \in CallIds |-> [a \in Attempts |->
                 IF invs[k][a].pc \in {"none", "done"} THEN invs[k][a]
                 ELSE [invs[k][a] EXCEPT !.wrapAge = Older(@, d, TIMEOUT_MS),
                                         !.ctAge = Older(@, d, CACHE_TTL)]]]
  /\ intervalAge' = [c \in Clients |-> Older(intervalAge[c], d, SWEEP_INTERVAL)]
  /\ UNCHANGED <<teamsDb, currentTeam, teams, sweep, txCommits, deductions,
                 issuesDirty, teamsDirty>>
  /\ feed' = [c \in Clients |-> OlderFeed(feed[c], d)]

\* Time passes in a behaviour that counts its Tick steps.
Tick(d) ==
  /\ ticks < MaxTicks
  /\ ticks' = ticks + 1
  /\ Pass(d)

(***************************************************************************)
(* The change feed (subscribeToIssues, subscribeToTeams): a server         *)
(* snapshot reaches the client's list state; the effect that holds the     *)
(* sweeper's interval depends on [issues, teams] and sets it anew.  The    *)
(* callback of the teams subscription also sets currentTeam when a team is *)
(* logged in, which runs the subscriptions effect again.                   *)
(***************************************************************************)
\* The listeners of client c on collection f that are attached.
Live(c, f) == feed[c][f].tracked + feed[c][f].leaked

FeedIssues(c) ==
  /\ issuesDirty[c]
  /\ Live(c, "issues") >= 1
  /\ feed' = [feed EXCEPT ![c] = Raise(@, "issues", FALSE)]
  /\ issuesDirty' = [issuesDirty EXCEPT ![c] = FALSE]
  /\ issues' = [issues EXCEPT ![c] = issuesDb]
  /\ intervalAge' = [intervalAge EXCEPT ![c] = 0]
  /\ UNCHANGED <<issuesDb, teamsDb, currentTeam, teams, teamIssueCountCache, calls, invs,
                 sweep, ticks, txCommits, deductions, teamsDirty>>

FeedTeams(c) ==
  /\ teamsDirty[c]
  /\ Live(c, "teams") >= 1
  /\ feed' = [feed EXCEPT ![c] = IF currentTeam[c] # NULL
                                   THEN Resubscribed(Raise(@, "teams", FALSE))
                                   ELSE Raise(@, "teams", FALSE)]
  /\ teamsDirty' = [teamsDirty EXCEPT ![c] = FALSE]
  /\ teams' = [teams EXCEPT ![c] = teamsDb]
  /\ intervalAge' = [intervalAge EXCEPT ![c] = 0]
  /\ UNCHANGED <<issuesDb, teamsDb, currentTeam, issues, teamIssueCountCache, calls, invs,
                 sweep, ticks, txCommits, deductions, issuesDirty>>


(***************************************************************************)
(* checkExpiredIssues (AppContext, lines 185-227).  A pass works on the    *)
(* issues and teams of the render that set the interval, and on the        *)
(* Date.now() of its start; it awaits each of its two writes.              *)
(***************************************************************************)
\* The order of the issues array: the collection's documents, by id.
IssueOrder == <<"I1", "I2", "I3", "I4", "I5">>

\* Lines 195-200.
Expired(issue) ==
  /\ issue.status = "occupied"
  /\ issue.occupiedAt # NoInstant
  /\ issue.assignedTo # NULL
  /\ issue.occupiedAt >= timeouts(issue.tag)

\* Line 208: Math.max(0, team.points - penalty)
newPointsNoFloor(points, tag) == points - penalties(tag)

newPoints(points, tag) == Max(0, points - penalties(tag))

\* Lines 214-219.
ResetUpdate ==
  [status |-> "open", assignedTo |-> NULL, occupiedAt |-> NoInstant, closedAt |-> NULL]

NoSweep == [phase |-> "idle", queue |-> <<>>, teams |-> <<>>]

\* The issues of the list a pass acts on, in the order it meets them; of each, what
\* the pass reads after its first await: id, assignedTo and tags[0].
ExpiredQueue(list) ==
  LET Test(i) == i \in DOMAIN list /\ Expired(list[i])
      ids == SelectSeq(IssueOrder, Test)
  IN [n \in 1..Len(ids) |->
        [id |-> ids[n], assignedTo |-> list[ids[n]].assignedTo, tag |-> list[ids[n]].tag]]

\* The interval fires and a pass starts.
SweepFire(c) ==
  /\ intervalAge[c] >= SWEEP_INTERVAL
  /\ sweep[c].phase = "idle"
  /\ intervalAge' = [intervalAge EXCEPT ![c] = 0]
  /\ sweep' = [sweep EXCEPT ![c] =
                 IF ExpiredQueue(issues[c]) = <<>> THEN NoSweep
                 ELSE [phase |-> "deduct", queue |-> ExpiredQueue(issues[c]),
                       teams |-> teams[c]]]
  /\ UNCHANGED <<issuesDb, teamsDb, currentTeam, issues, teams, teamIssueCountCache,
                 calls, invs, issuesDirty, teamsDirty, ticks, txCommits, deductions>>
  /\ UNCHANGED feed

\* Lines 206-211: await updateTeam(team.name, {points: newPoints}), if the team is
\* in the list.
SweepDeduct(c) ==
  /\ sweep[c].phase = "deduct"
  /\ LET issue == Head(sweep[c].queue)
         name == issue.assignedTo
     IN IF name \in DOMAIN sweep[c].teams
          THEN /\ teamsDb' = updateTeam(teamsDb, name,
                      [points |-> newPoints(sweep[c].teams[name].points, issue.tag)])
               /\ teamsDirty' = AllDirty
               /\ deductions' = [deductions EXCEPT ![issue.id] = Min(MaxDeductions, @ + 1)]
          ELSE UNCHANGED <<teamsDb, teamsDirty, deductions>>
  /\ sweep' = [sweep EXCEPT ![c].phase = "reset"]
  /\ UNCHANGED <<issuesDb, currentTeam, issues, teams, teamIssueCountCache, calls, invs,
                 issuesDirty, intervalAge, ticks, txCommits>>
  /\ UNCHANGED feed

\* Lines 214-219: await updateIssueInDb(issue.id, {...}); then the next issue.
SweepReset(c) ==
  /\ sweep[c].phase = "reset"
  /\ LET i == Head(sweep[c].queue).id
         rest == Tail(sweep[c].queue)
     IN /\ issuesDb' = updateIssue(issuesDb, i, ResetUpdate)
        /\ txCommits' = [txCommits EXCEPT ![i] = 0]
        /\ sweep' = [sweep EXCEPT ![c] =
                       IF rest = <<>> THEN NoSweep
                       ELSE [@ EXCEPT !.phase = "deduct", !.queue = rest]]
  /\ issuesDirty' = AllDirty
  /\ UNCHANGED <<teamsDb, currentTeam, issues, teams, teamIssueCountCache, calls, invs,
                 teamsDirty, intervalAge, ticks, deductions>>
  /\ UNCHANGED feed

(***************************************************************************)
(* closeIssue and updatePrStatus (AppContext, lines 404-446).              *)
(***************************************************************************)
\* Lines 409-414.
CloseUpdate == [status |-> "closed", closedAt |-> "set", prUrl |-> "url", prStatus |-> "pending"]

\* The team's page offers "close" on the issues its list shows as held by the team.
closeIssue(c, issueId) ==
  /\ currentTeam[c] # NULL
  /\ issueId \in DOMAIN issues[c]
  /\ issues[c][issueId].status = "occupied"
  /\ issues[c][issueId].assignedTo = currentTeam[c]
  /\ issuesDb' = updateIssue(issuesDb, issueId, CloseUpdate)
  /\ issuesDirty' = AllDirty
  /\ UNCHANGED <<teamsDb, currentTeam, issues, teams, teamIssueCountCache, calls, invs,
                 teamsDirty, intervalAge, sweep, ticks, txCommits, deductions>>
  /\ UNCHANGED feed

\* Line 437: team.points + points
awarded(points, tag) == points + pointsMap(tag)

\* The admin's page offers the PR status on the issues its list shows as closed.
updatePrStatus(c, issueId, status) ==
  /\ issueId \in DOMAIN issues[c]
  /\ issues[c][issueId].status = "closed"
  /\ issuesDb' = updateIssue(issuesDb, issueId, [prStatus |-> status])
  /\ issuesDirty' = AllDirty
  /\ LET issue == issues[c][issueId]
         name == issue.assignedTo
     IN IF status = "merged" /\ name # NULL /\ name \in DOMAIN teams[c]
          THEN /\ awarded(teams[c][name].points, issue.tag) <= MaxPoints
               /\ teamsDb' = updateTeam(teamsDb, name,
                      [points |-> awarded(teams[c][name].points, issue.tag)])
               /\ teamsDirty' = AllDirty
          ELSE UNCHANGED <<teamsDb, teamsDirty>>
  /\ UNCHANGED <<currentTeam, issues, teams, teamIssueCountCache, calls, invs,
                 intervalAge, sweep, ticks, txCommits, deductions>>
  /\ UNCHANGED feed

(***************************************************************************)
(* Initial states: the clients have loaded, their lists hold the store's   *)
(* documents, no call is running.                                          *)
(***************************************************************************)
InitWith(db, tdb, who) ==
  /\ issuesDb = db
  /\ teamsDb = tdb
  /\ currentTeam = who
  /\ issues = [c \in Clients |-> db]
  /\ teams = [c \in Clients |-> tdb]
  /\ teamIssueCountCache = [c \in Clients |-> <<>>]
  /\ calls = [k \in CallIds |-> NoCall]
  /\ invs = [k \in CallIds |-> [a \in Attempts |-> NoInv]]
  /\ issuesDirty = [c \in Clients |-> FALSE]
  /\ teamsDirty = [c \in Clients |-> FALSE]
  /\ intervalAge = [c \in Clients |-> 0]
  /\ sweep = [c \in Clients |-> NoSweep]
  /\ ticks = 0
  /\ txCommits = [i \in DOMAIN db |-> IF db[i].status = "occupied" THEN 1 ELSE 0]
  /\ deductions = [i \in DOMAIN db |-> 0]
  /\ feed = [c \in Clients |-> NoFeed]

Players == [c \in Clients |-> IF c = "c1" THEN "TeamBravo" ELSE "TeamCharlie"]

(***************************************************************************)
(* Spec: TeamBravo, which holds two issues, and TeamCharlie race for the   *)
(* open issues; the store may answer late.                                 *)
(***************************************************************************)
Init ==
  InitWith("I1" :> HeldIssue("easy", "TeamBravo", 0)
             @@ "I2" :> HeldIssue("medium", "TeamBravo", 0)
             @@ "I3" :> OpenIssue("easy") @@ "I4" :> OpenIssue("hard"),
           [t \in ALLOWED_TEAMS |-> TeamDoc(0)], Players)

Claiming ==
  \/ \E k \in CallIds, c \in Clients, i \in DOMAIN issuesDb : occupyIssue(k, c, i)
  \/ \E k \in CallIds, a \in Attempts : GetDoc(k, a)
  \/ \E k \in CallIds, a \in Attempts : Query(k, a)
  \/ \E k \in CallIds, a \in Attempts : RunTransaction(k, a)
  \/ \E c \in Clients : FeedIssues(c)

Next ==
  \/ Claiming
  \/ \E k \in CallIds : Timeout(k)
  \/ \E k \in CallIds : Retry(k)
  \/ Tick(CACHE_TTL)

Spec == Init /\ [][Next]_vars

(***************************************************************************)
(* The claim protocol under Spec.                                          *)
(***************************************************************************)
Finished(k) == calls[k].pc = "done"

Target(k) == issuesDb[calls[k].issueId]

\* C1: for every issue, at most one transaction commits the open -> occupied
\* transition while the issue is in one open cycle, however many occupy attempts
\* (of one team or of several, awaited or given up on by their client) run at once.
C1_AtMostOneCommit == \A i \in DOMAIN txCommits : txCommits[i] <= 1

\* Two teams passed the pre-read of the same open issue; the transaction of one
\* committed, the transaction of the other threw.
C1_RaceDecided ==
  \E k1, k2 \in CallIds :
    /\ calls[k1].issueId = calls[k2].issueId
    /\ calls[k1].teamName # calls[k2].teamName
    /\ invs[k1][1].result.success
    /\ txCommits[calls[k1].issueId] = 1
    /\ invs[k2][1].pc = "done"
    /\ invs[k2][1].result = Failure(MsgReferenceError)

\* Call k lost the race for its issue: it failed, and the call of another team for
\* the same issue succeeded.
LostRace(k) ==
  /\ Finished(k)
  /\ ~calls[k].result.success
  /\ \E j \in CallIds :
       /\ calls[j].issueId = calls[k].issueId
       /\ calls[j].teamName # calls[k].teamName
       /\ Finished(j)
       /\ calls[j].result.success

\* C2: every call that lost the race for its issue, and whose failure is neither
\* the quota nor the client's timeout, carries an "already ..." message.
C2_LosersSeeAlready ==
  \A k \in CallIds :
    LostRace(k) /\ calls[k].result.error \notin {MsgQuota, MsgAfterRetries}
      => Includes(calls[k].result.error, <<"already">>)

\* C6: a call that ends (otherwise than by the client's timeout) while the store
\* holds its issue as occupied by the calling team fails with "Your team is
\* already assigned to this issue."
C6_AlreadySelf ==
  [][\A k \in CallIds :
       /\ ~Finished(k)
       /\ calls'[k].pc = "done"
       /\ issuesDb[calls'[k].issueId].status = "occupied"
       /\ issuesDb[calls'[k].issueId].assignedTo = calls'[k].teamName
       /\ calls'[k].result.error # MsgAfterRetries
       => calls'[k].result = Failure(MsgSelf)]_vars

\* A call started while the client's list is the store's and shows the target open
\* and QUOTA issues occupied by the team: it fails at once with the quota message,
\* and neither the store nor the list changes.
C3_RejectedAtOnce ==
  \A k \in CallIds, c \in Clients, i \in DOMAIN issuesDb :
    /\ calls[k].pc = "idle"
    /\ calls'[k].pc # "idle"
    /\ calls'[k].client = c
    /\ calls'[k].issueId = i
    /\ issues[c] = issuesDb
    /\ issuesDb[i].status = "open"
    /\ teamOccupiedCount(issuesDb, currentTeam[c]) = QUOTA
    => /\ calls'[k].pc = "done"
       /\ calls'[k].result = Failure(MsgQuota)
       /\ issuesDb' = issuesDb
       /\ issues' = issues

\* A call started while the store holds QUOTA (or more) occupied issues of the
\* team never commits, also when the client's list is behind the store; when it
\* has ended, it has failed with the quota message, or because the target was
\* taken ("already ..."), or by the client's timeout.
C3_NeverCommits ==
  \A k \in CallIds :
    calls[k].pc # "idle" /\ calls[k].held >= QUOTA
      => /\ \A a \in Attempts : ~invs[k][a].result.success
         /\ Finished(k) =>
              /\ ~calls[k].result.success
              /\ \/ calls[k].result.error \in {MsgQuota, MsgAfterRetries}
                 \/ Includes(calls[k].result.error, <<"already">>)

InitQuota ==
  InitWith("I1" :> HeldIssue("easy", "TeamBravo", 0)
             @@ "I2" :> HeldIssue("medium", "TeamBravo", 0)
             @@ "I3" :> OpenIssue("easy") @@ "I4" :> OpenIssue("hard")
             @@ "I5" :> HeldIssue("easy", "TeamCharlie", 0),
           [t \in ALLOWED_TEAMS |-> TeamDoc(0)], Players)

Closing == \E c \in Clients, i \in DOMAIN issuesDb : closeIssue(c, i)

NextQuota ==
  \/ \E k \in CallIds, i \in DOMAIN issuesDb : occupyIssue(k, "c1", i)
  \/ \E k \in CallIds, a \in Attempts : GetDoc(k, a)
  \/ \E k \in CallIds, a \in Attempts : Query(k, a)
  \/ \E k \in CallIds, a \in Attempts : RunTransaction(k, a)
  \/ FeedIssues("c1")
  \/ Closing

SpecQuota == InitQuota /\ [][NextQuota]_vars

\* C4: a call that starts while the store holds fewer than 3 occupied issues of
\* its team (one of three was closed) is not rejected by the coordinator for quota
\* while the store still holds fewer than 3.
C4_NoQuotaAfterClose ==
  [][\A k \in CallIds :
       /\ calls[k].pc = "waiting"
       /\ calls[k].held < QUOTA
       /\ teamOccupiedCount(issuesDb, calls[k].teamName) < QUOTA
       /\ calls'[k].pc = "done"
       => calls'[k].result # Failure(MsgQuota)]_vars

\* C5: the store commits the transaction of an attempt exactly when the issue is
\* open and not assigned to the team, whatever the number of issues the team
\* holds; the commit makes the issue occupied by the team.
C5_TransactionIgnoresQuota ==
  [][\A k \in CallIds, a \in Attempts :
       invs[k][a].pc = "tx" /\ invs'[k][a].pc = "done"
       => LET i == calls[k].issueId
              team == calls[k].teamName
          IN /\ invs'[k][a].result.success
                  <=> issuesDb[i].status = "open" /\ issuesDb[i].assignedTo # team
             /\ invs'[k][a].result.success
                  => /\ issuesDb'[i].status = "occupied"
                     /\ issuesDb'[i].assignedTo = team
                     /\ teamOccupiedCount(issuesDb', team)
                          = teamOccupiedCount(issuesDb, team) + 1]_vars

\* Two calls of one team, both started while it held 2 issues, committed two
\* different issues: the team holds 4.
C5_OverQuota ==
  \E k1, k2 \in CallIds :
    /\ calls[k1].teamName = calls[k2].teamName
    /\ calls[k1].issueId # calls[k2].issueId
    /\ calls[k1].held = 2 /\ calls[k2].held = 2
    /\ \E a \in Attempts : invs[k1][a].result.success
    /\ \E a \in Attempts : invs[k2][a].result.success
    /\ teamOccupiedCount(issuesDb, calls[k1].teamName) > QUOTA

(***************************************************************************)
(* SpecSweep: the sweepers of the two clients.  TeamBravo has 3 points and *)
(* has held the hard issue I1 for 40 minutes; TeamCharlie has 20 points    *)
(* and has just claimed the easy issue I2.                                 *)
(***************************************************************************)
InitSweep ==
  InitWith("I1" :> HeldIssue("hard", "TeamBravo", 40 * MINUTE)
             @@ "I2" :> HeldIssue("easy", "TeamCharlie", 0),
           [t \in ALLOWED_TEAMS |-> TeamDoc(IF t = "TeamBravo" THEN 3 ELSE 20)],
           Players)

Sweeping ==
  \/ \E c \in Clients : SweepFire(c)
  \/ \E c \in Clients : SweepDeduct(c)
  \/ \E c \in Clients : SweepReset(c)

Feed ==
  \/ \E c \in Clients : FeedIssues(c)
  \/ \E c \in Clients : FeedTeams(c)

NextSweep ==
  \/ Sweeping
  \/ Feed
  \/ Tick(20 * MINUTE)

SpecSweep == InitSweep /\ [][NextSweep]_vars

\* The policy tables as the claims state them.
C7_TimeLimit(tag) ==
  CASE tag = "easy" -> 20 * MINUTE [] tag = "medium" -> 40 * MINUTE
    [] tag = "hard" -> 60 * MINUTE

C7_Penalty(tag) == CASE tag = "easy" -> 5 [] tag = "medium" -> 10 [] tag = "hard" -> 15

\* The issues of client c's list that are occupied and overdue.
C7_Overdue(c) ==
  {i \in DOMAIN issues[c] :
     /\ issues[c][i].status = "occupied"
     /\ issues[c][i].assignedTo # NULL
     /\ issues[c][i].occupiedAt # NoInstant
     /\ issues[c][i].occupiedAt >= C7_TimeLimit(issues[c][i].tag)}

\* C7: a pass that starts takes up exactly the occupied issues of the client's
\* list whose age has reached the time limit of their tag; for each it sets the
\* team's stored points to max(0, points - penalty(tag)), points being the team's
\* points in the list the pass works on, and then resets the stored issue to open
\* with assignedTo, occupiedAt and closedAt cleared.
C7_SweepExpires ==
  [][\A c \in Clients :
       /\ sweep[c].phase = "idle" /\ sweep'[c].phase = "deduct"
            => {sweep'[c].queue[n].id : n \in 1..Len(sweep'[c].queue)} = C7_Overdue(c)
       /\ sweep[c].phase = "deduct" /\ sweep'[c].phase = "reset"
            => LET issue == Head(sweep[c].queue)
                   team == issue.assignedTo
                   points == sweep[c].teams[team].points
                   less == points - C7_Penalty(issue.tag)
               IN /\ teamsDb'[team].points = IF less > 0 THEN less ELSE 0
                  /\ issuesDb' = issuesDb
       /\ sweep[c].phase = "reset" /\ sweep'[c].phase # "reset"
            => LET i == Head(sweep[c].queue).id
               IN /\ issuesDb'[i].status = "open"
                  /\ issuesDb'[i].assignedTo = NULL
                  /\ issuesDb'[i].occupiedAt = NoInstant
                  /\ issuesDb'[i].closedAt = NULL
                  /\ teamsDb' = teamsDb]_vars

\* One pass has expired the hard issue of TeamBravo (3 points) and the easy issue
\* of TeamCharlie (20 points): both are open again, the teams have 0 and 15.
C7_BothExpired ==
  /\ \A i \in {"I1", "I2"} :
       /\ issuesDb[i].status = "open"
       /\ issuesDb[i].assignedTo = NULL
       /\ issuesDb[i].occupiedAt = NoInstant
       /\ deductions[i] = 1
  /\ teamsDb["TeamBravo"].points = 0
  /\ teamsDb["TeamCharlie"].points = 15
  /\ \A c \in Clients : sweep[c] = NoSweep

\* C8: for one expiry of one claim the penalty is deducted at most once:
\* TeamCharlie, which starts with 20 points and whose one claim (easy, penalty 5)
\* expires once, never has fewer than 15 points.
C8_PenaltyOnce == teamsDb["TeamCharlie"].points >= 20 - 5

(***************************************************************************)
(* SpecReview: the PRs of the two issues TeamBravo has closed are          *)
(* reviewed.                                                               *)
(***************************************************************************)
ClosedIssue(tag, team) == Merge(HeldIssue(tag, team, MaxAge), CloseUpdate)

PrStatuses == {"approved", "merged", "rejected"}

InitReview ==
  InitWith("I1" :> ClosedIssue("easy", "TeamBravo")
             @@ "I2" :> ClosedIssue("hard", "TeamBravo"),
           [t \in ALLOWED_TEAMS |-> TeamDoc(IF t = "TeamBravo" THEN 3 ELSE 0)],
           Players)

Reviewing ==
  \E c \in Clients, i \in DOMAIN issuesDb, status \in PrStatuses :
    updatePrStatus(c, i, status)

NextReview ==
  \/ Reviewing
  \/ Feed

SpecReview == InitReview /\ [][NextReview]_vars

C10_Award(tag) == CASE tag = "easy" -> 10 [] tag = "medium" -> 20 [] tag = "hard" -> 30

\* C10: the step that sets prStatus to merged on a closed issue held by a team
\* (and not merged before) increases the team's stored points by exactly the award
\* of the issue's tag.
C10_MergeAwards ==
  [][\A i \in DOMAIN issuesDb :
       /\ issuesDb[i].status = "closed"
       /\ issuesDb[i].assignedTo \in DOMAIN teamsDb
       /\ issuesDb[i].prStatus # "merged"
       /\ issuesDb'[i].prStatus = "merged"
       => teamsDb'[issuesDb[i].assignedTo].points
            = teamsDb[issuesDb[i].assignedTo].points + C10_Award(issuesDb[i].tag)]_vars

(***************************************************************************)
(* SpecLive: TeamBravo's claim of I1 is overdue; the clients' sweepers run *)
(* while the PR of the closed issue I2 is reviewed again and again.  A     *)
(* timer that is due fires before more time passes; every enabled step of  *)
(* the event loops, of the feed and of the clock is eventually taken.      *)
(***************************************************************************)
InitLive ==
  InitWith("I1" :> HeldIssue("hard", "TeamBravo", MaxAge)
             @@ "I2" :> ClosedIssue("easy", "TeamCharlie"),
           [t \in ALLOWED_TEAMS |-> TeamDoc(3)], Players)

\* No interval is due.
NoTimerDue ==
  \A c \in Clients : ~(intervalAge[c] >= SWEEP_INTERVAL /\ sweep[c].phase = "idle")

Elapse(d) ==
  /\ NoTimerDue
  /\ Pass(d)
  /\ UNCHANGED ticks

Triage ==
  \E c \in Clients, status \in {"approved", "rejected"} : updatePrStatus(c, "I2", status)

NextLive ==
  \/ Sweeping
  \/ Feed
  \/ Triage
  \/ Elapse(CACHE_TTL)

Fairness ==
  /\ WF_vars(Elapse(CACHE_TTL))
  /\ \A c \in Clients :
       /\ WF_vars(SweepFire(c))
       /\ WF_vars(SweepDeduct(c))
       /\ WF_vars(SweepReset(c))
       /\ WF_vars(FeedIssues(c))
       /\ WF_vars(FeedTeams(c))

SpecLive == InitLive /\ [][NextLive]_vars /\ Fairness

\* C9: an issue that is occupied and overdue is eventually reset to open.
C9_OverdueIsReset == Expired(issuesDb["I1"]) ~> issuesDb["I1"].status = "open"

(***************************************************************************)
(* More of SpecReview: a PR status submitted again.                        *)
(***************************************************************************)
\* C11: submitting merged on an issue that is already merged awards nothing: a
\* step in which no issue becomes merged (it was merged before, or is not merged
\* after) raises no team's stored points.
C11_NoSecondAward ==
  [][(\A i \in DOMAIN issuesDb :
        issuesDb'[i].prStatus = "merged" => issuesDb[i].prStatus = "merged")
     => \A t \in DOMAIN teamsDb : teamsDb'[t].points <= teamsDb[t].points]_vars

(***************************************************************************)
(* More of Spec: the end of a call that had applied its optimistic update. *)
(***************************************************************************)
\* C12: when a call that had applied the optimistic update returns a failure, the
\* client's issue list is, in every field of every issue, the snapshot the call took
\* before the update (previousIssues).
C12_Rollback ==
  [][\A k \in CallIds :
       /\ calls[k].pc = "waiting"
       /\ calls'[k].pc = "done"
       /\ ~calls'[k].result.success
       => issues'[calls[k].client] = calls[k].previousIssues]_vars

\* A call failed after its optimistic update and its client shows the issue as it
\* was: open, unassigned, never occupied.
C12_RolledBack ==
  \E k \in CallIds :
    /\ calls[k].pc = "done"
    /\ calls[k].attempt >= 1
    /\ ~calls[k].result.success
    /\ issues[calls[k].client][calls[k].issueId].status = "open"
    /\ issues[calls[k].client][calls[k].issueId].assignedTo = NULL
    /\ issues[calls[k].client][calls[k].issueId].occupiedAt = NoInstant

\* C14: when the attempt a call awaits after a retry (attempt > 1: the earlier
\* attempts failed transiently) commits, the call returns success with no error
\* and the store has the issue occupied by the calling team.
C14_RetriedIntoSuccess ==
  [][\A k \in CallIds :
       /\ calls[k].pc = "waiting"
       /\ calls[k].attempt > 1
       /\ invs[k][calls[k].attempt].pc = "tx"
       /\ invs'[k][calls[k].attempt].pc = "done"
       /\ invs'[k][calls[k].attempt].result.success
       => /\ calls'[k].pc = "done"
          /\ calls'[k].result.success
          /\ calls'[k].result.error = <<>>
          /\ issuesDb'[calls[k].issueId].status = "occupied"
          /\ issuesDb'[calls[k].issueId].assignedTo = calls[k].teamName]_vars

\* A call succeeded at its second attempt and the store has the issue with its team.
C14_SecondAttemptCommitted ==
  \E k \in CallIds :
    /\ calls[k].pc = "done"
    /\ calls[k].attempt > 1
    /\ calls[k].result = Success
    /\ issuesDb[calls[k].issueId].status = "occupied"
    /\ issuesDb[calls[k].issueId].assignedTo = calls[k].teamName

\* Attempt a of call k ends in this step on a terminal error: its result carries
\* an 'already ...' message (AlreadyResolved, AlreadySelf, QuotaExceeded), or the
\* transaction function threw its business-rule error.
C15_Terminal(k, a) ==
  /\ invs[k][a].pc \notin {"none", "done"}
  /\ invs'[k][a].pc = "done"
  /\ ~invs'[k][a].result.success
  /\ \/ Includes(invs'[k][a].result.error, <<"already">>)
     \/ /\ invs[k][a].pc = "tx"
        /\ issuesDb' = issuesDb
        /\ TransactionBody(calls[k].issueId \in DOMAIN issuesDb,
                           issuesDb[calls[k].issueId], calls[k].teamName).thrown

\* C15: a terminal error of the attempt a call awaits ends the call in the same
\* step, with that failure and without backoff; and a call that has ended has
\* started no attempt beyond its last one.
C15_TerminalReturnsAtOnce ==
  [][\A k \in CallIds :
       /\ \A a \in Attempts :
            Awaited(k, a) /\ C15_Terminal(k, a)
            => /\ calls'[k].pc = "done"
               /\ calls'[k].result = invs'[k][a].result
               /\ calls'[k].backoffLeft = 0
       /\ calls'[k].pc = "done"
            => \A a \in Attempts : a > calls'[k].attempt => invs'[k][a].pc = "none"
       /\ calls[k].pc = "done" => calls'[k].pc = "done"]_vars

\* The coordinator rejected the first attempt of a call with an 'already ...'
\* message; the call has ended and no second attempt exists.
C15_TerminalAtFirstAttempt ==
  \E k \in CallIds :
    /\ calls[k].pc = "done"
    /\ calls[k].attempt = 1
    /\ invs[k][1].pc = "done"
    /\ Includes(calls[k].result.error, <<"already">>)
    /\ invs[k][2].pc = "none"

\* C17: the timeout of the wrapper cancels nothing.  When the transaction of an
\* attempt the call no longer awaits commits, the store gets the issue occupied by
\* the team, and neither the call (its result included) nor any client's list
\* changes.
C17_TimeoutDoesNotCancel ==
  [][\A k \in CallIds, a \in Attempts :
       /\ ~Awaited(k, a)
       /\ invs[k][a].pc = "tx"
       /\ invs'[k][a].pc = "done"
       /\ invs'[k][a].result.success
       => /\ issuesDb'[calls[k].issueId].status = "occupied"
          /\ issuesDb'[calls[k].issueId].assignedTo = calls[k].teamName
          /\ calls' = calls
          /\ issues' = issues]_vars

\* The store has the issue occupied by the team of a call that timed out, returned
\* a failure and rolled the client's list back; no other call was made for the issue.
C17_CommittedButFailed ==
  \E k \in CallIds :
    /\ calls[k].pc = "done"
    /\ calls[k].attempt > 1
    /\ ~calls[k].result.success
    /\ \A j \in CallIds \ {k} : calls[j].issueId # calls[k].issueId
    /\ issuesDb[calls[k].issueId].status = "occupied"
    /\ issuesDb[calls[k].issueId].assignedTo = calls[k].teamName
    /\ issues[calls[k].client][calls[k].issueId].status = "open"

(***************************************************************************)
(* The store fails: an await of occupyIssueTransaction rejects.  getDoc    *)
(* (line 531) is awaited before the retry loop, so its error reaches the   *)
(* outer catch; getDocs (line 568) and runTransaction (line 584) are       *)
(* awaited inside the loop, so their errors reach the loop's catch first.  *)
(***************************************************************************)
\* The errors the store's client library rejects with: a FirestoreError carries a
\* code; an error of the transport below it (a failed fetch: "NetworkError when
\* attempting to fetch resource.") carries none.
ErrUnavailable ==
  Error("unavailable",
        <<"failed", "to", "get", "document", "because", "the", "client", "is", "offline">>)
ErrDeadlineExceeded == Error("deadline-exceeded", <<"deadline", "exceeded">>)
ErrPermissionDenied ==
  Error("permission-denied", <<"missing", "or", "insufficient", "permissions">>)
ErrNetwork ==
  Error(NULL, <<"network", "error", "when", "attempting", "to", "fetch", "resource">>)

StoreErrors == {ErrUnavailable, ErrDeadlineExceeded, ErrPermissionDenied, ErrNetwork}

GetDocFails(k, a, error) ==
  /\ invs[k][a].pc = "getDoc"
  /\ InTime(k, a)
  /\ Return(k, a, OuterCatch(error))
  /\ UNCHANGED <<issuesDb, teamsDb, currentTeam, teams, teamIssueCountCache, sweep,
                 ticks, txCommits, deductions, issuesDirty, teamsDirty>>
  /\ UNCHANGED feed

QueryFails(k, a, error) ==
  /\ invs[k][a].pc = "query"
  /\ InTime(k, a)
  /\ Return(k, a, LoopCatch(error))
  /\ UNCHANGED <<issuesDb, teamsDb, currentTeam, teams, teamIssueCountCache, sweep,
                 ticks, txCommits, deductions, issuesDirty, teamsDirty>>
  /\ UNCHANGED feed

\* The transaction is not committed.
RunTransactionFails(k, a, error) ==
  /\ invs[k][a].pc = "tx"
  /\ InTime(k, a)
  /\ Return(k, a, LoopCatch(error))
  /\ UNCHANGED <<issuesDb, teamsDb, currentTeam, teams, teamIssueCountCache, sweep,
                 ticks, txCommits, deductions, issuesDirty, teamsDirty>>
  /\ UNCHANGED feed

(***************************************************************************)
(* SpecFaults: TeamCharlie, which holds nothing, claims the open issues    *)
(* from its client while the store may fail.  The store answers at once   *)
(* or not at all: time passes only while a call backs off.                 *)
(***************************************************************************)
InitFaults ==
  InitWith("I3" :> OpenIssue("easy") @@ "I4" :> OpenIssue("hard"),
           [t \in ALLOWED_TEAMS |-> TeamDoc(0)], Players)

Failing ==
  \E k \in CallIds, a \in Attempts, error \in StoreErrors :
    \/ GetDocFails(k, a, error)
    \/ QueryFails(k, a, error)
    \/ RunTransactionFails(k, a, error)

\* The backoff of call k passes (line 384): 500 * attempt ms, in which no other
\* timer of the program can become due.
Backoff(k) ==
  /\ calls[k].pc = "backoff"
  /\ calls[k].backoffLeft > 0
  /\ Pass(calls[k].backoffLeft)
  /\ UNCHANGED ticks

NextFaults ==
  \/ \E k \in CallIds, i \in DOMAIN issuesDb : occupyIssue(k, "c2", i)
  \/ \E k \in CallIds, a \in Attempts : GetDoc(k, a) \/ Query(k, a) \/ RunTransaction(k, a)
  \/ Failing
  \/ \E k \in CallIds : Backoff(k)
  \/ \E k \in CallIds : Retry(k)
  \/ FeedIssues("c2")

SpecFaults == InitFaults /\ [][NextFaults]_vars

\* Every attempt of call k has returned or was never started.
Returned(k) == \A a \in Attempts : invs[k][a].pc \in {"none", "done"}

\* C13: once every claim of a client has returned, no issue whose claim failed is
\* shown to the client as occupied by its team, unless the store has the issue
\* assigned to the team (the claim was committed after all).
C13_NoPhantomClaim ==
  \A c \in Clients :
    (\A k \in CallIds : calls[k].client = c => calls[k].pc = "done" /\ Returned(k))
    => \A k \in CallIds :
         /\ calls[k].client = c
         /\ calls[k].attempt >= 1
         /\ ~calls[k].result.success
         /\ issuesDb[calls[k].issueId].assignedTo # calls[k].teamName
         => ~ /\ issues[c][calls[k].issueId].status = "occupied"
              /\ issues[c][calls[k].issueId].assignedTo = calls[k].teamName

\* C16: a call that gave up after its last attempt failed transiently returns
\* that last transient error.
C16_RetriesExhausted ==
  \A k \in CallIds :
    /\ calls[k].pc = "done"
    /\ calls[k].attempt >= 1
    /\ ~calls[k].result.success
    /\ invs[k][calls[k].attempt].pc = "done"
    /\ isTransient(invs[k][calls[k].attempt].result.error)
    => calls[k].result.error = invs[k][calls[k].attempt].result.error

\* A result value: success without error, or a failure with its message.
C18_ResultValue(r) == r.success <=> (r.error = <<>>)

\* C18: every invocation of occupyIssueTransaction and every occupyIssue call that
\* has ended has ended with a result value; a failure carries its message, whatever
\* failed (pre-check, business rule, store exception, retries exhausted).
C18_FailuresAreValues ==
  \A k \in CallIds :
    /\ calls[k].pc = "done" => C18_ResultValue(calls[k].result)
    /\ \A a \in Attempts : invs[k][a].pc = "done" => C18_ResultValue(invs[k][a].result)

\* A call ended with the failure that the outer catch made of an exception thrown
\* inside the retry loop.
C18_ExceptionReturned ==
  \E k \in CallIds :
    /\ calls[k].pc = "done"
    /\ calls[k].attempt >= 1
    /\ calls[k].result = Failure(MsgReferenceError)

\* The failure a store error is to be reported as.
C19_Mapped(error) ==
  CASE error.code = "permission-denied" -> MsgPermission
    [] error.code \in {"unavailable", "deadline-exceeded"} -> MsgUnavailable

\* C19: when the store fails with Unavailable, DeadlineExceeded or PermissionDenied
\* in the attempt a call awaits (at getDoc, at the quota query or at the
\* transaction), the call ends in that step, without retry, with the mapped failure.
C19_StoreFailureNotRetried ==
  [][\A k \in CallIds, a \in Attempts :
       \A error \in {ErrUnavailable, ErrDeadlineExceeded, ErrPermissionDenied} :
         /\ Awaited(k, a)
         /\ \/ GetDocFails(k, a, error)
            \/ QueryFails(k, a, error)
            \/ RunTransactionFails(k, a, error)
         => /\ calls'[k].pc = "done"
            /\ calls'[k].result = Failure(C19_Mapped(error))]_vars

(***************************************************************************)
(* SpecCoordinator: occupyIssueTransaction called as the exported function *)
(* it is, with any issue id and team name, from two clients.  TeamBravo    *)
(* holds two issues.                                                       *)
(***************************************************************************)
IssueIdInputs == {"", "I1", "I3", "I4", "I9"}
TeamNameInputs == {"", "TeamBravo"}

\* occupyIssueTransaction(issueId, teamName) up to its first await: lines 521-531.
\* No wrapper awaits the invocation: its result stays in invs[k][1].
occupyIssueTransaction(k, c, issueId, teamName) ==
  /\ calls[k].pc = "idle"
  /\ \A j \in CallIds : j < k => calls[j].pc # "idle"
  /\ calls' = [calls EXCEPT ![k] = [NoCall EXCEPT !.pc = "direct", !.client = c,
                    !.issueId = issueId, !.teamName = teamName, !.attempt = 1,
                    !.held = teamOccupiedCount(issuesDb, teamName)]]
  /\ invs' = [invs EXCEPT ![k][1] =
                IF InputCheck(issueId, teamName) # <<>>
                  THEN [NoInv EXCEPT !.pc = "done",
                                     !.result = Failure(InputCheck(issueId, teamName))]
                  ELSE StartInv]
  /\ UNCHANGED <<issuesDb, teamsDb, currentTeam, issues, teams, teamIssueCountCache,
                 intervalAge, sweep, ticks, txCommits, deductions, issuesDirty, teamsDirty>>
  /\ UNCHANGED feed

InitCoordinator ==
  InitWith("I1" :> HeldIssue("easy", "TeamBravo", 0)
             @@ "I2" :> HeldIssue("medium", "TeamBravo", 0)
             @@ "I3" :> OpenIssue("easy")
             @@ "I4" :> OpenIssue("hard"),
           [t \in ALLOWED_TEAMS |-> TeamDoc(0)], Players)

NextCoordinator ==
  \/ \E k \in CallIds, c \in Clients, i \in IssueIdInputs, t \in TeamNameInputs :
       occupyIssueTransaction(k, c, i, t)
  \/ \E k \in CallIds, a \in Attempts : GetDoc(k, a) \/ Query(k, a) \/ RunTransaction(k, a)

SpecCoordinator == InitCoordinator /\ [][NextCoordinator]_vars

\* The quota cache of the invocation's client holds a fresh entry of its team with
\* the quota reached.
C20_CachedQuota(k) ==
  LET cache == teamIssueCountCache[calls[k].client]
  IN /\ calls[k].teamName \in DOMAIN cache
     /\ cache[calls[k].teamName].timestamp < CACHE_TTL
     /\ cache[calls[k].teamName].count >= QUOTA

\* The invocation of slot k ends in this step with the failure msg.
C20_Fails(k, msg) ==
  /\ invs'[k][1].pc = "done"
  /\ invs'[k][1].result = Failure(msg)

\* The steps of the invocation of slot k, as the order of the preconditions
\* prescribes them: the inputs, then the status of the issue, then the quota.
C20_InOrder(k) ==
  /\ calls[k].pc = "idle" /\ calls'[k].pc = "direct"
       => IF calls'[k].issueId = "" \/ calls'[k].teamName = ""
            THEN C20_Fails(k, MsgRequired)
            ELSE invs'[k][1].pc = "getDoc"
  /\ (/\ invs[k][1].pc = "getDoc"
      /\ invs'[k][1].pc # "getDoc"
      /\ calls[k].issueId \in DOMAIN issuesDb)
       => IF issuesDb[calls[k].issueId].status # "open"
            THEN C20_Fails(k, MsgAlready(issuesDb[calls[k].issueId].status))
          ELSE IF C20_CachedQuota(k)
            THEN C20_Fails(k, MsgQuota)
            ELSE invs'[k][1].pc \in {"query", "tx"}
  /\ invs[k][1].pc = "query" /\ invs'[k][1].pc # "query"
       => IF teamOccupiedCount(issuesDb, calls[k].teamName) >= QUOTA
            THEN C20_Fails(k, MsgQuota)
            ELSE invs'[k][1].pc = "tx"

\* C20: the coordinator checks its preconditions in the order inputs, status,
\* quota; an invocation that fails one of them ends before its transaction was
\* started, never starts it afterwards, and leaves the store's issues and the
\* quota cache as they were.
C20_PreconditionsInOrder ==
  [][\A k \in CallIds :
       /\ C20_InOrder(k)
       /\ invs[k][1].pc \in {"none", "getDoc", "query"} /\ invs'[k][1].pc = "done"
            => /\ ~invs'[k][1].result.success
               /\ issuesDb' = issuesDb
               /\ teamIssueCountCache' = teamIssueCountCache
       /\ invs[k][1].pc = "done" => invs'[k][1].pc = "done"]_vars

\* An invocation for an occupied issue, by a team whose fresh cache entry says the
\* quota is reached, was rejected for the status.
C20_StatusBeforeQuota ==
  \E k \in CallIds :
    /\ calls[k].pc = "direct"
    /\ invs[k][1].pc = "done"
    /\ invs[k][1].result = Failure(MsgAlready("occupied"))
    /\ C20_CachedQuota(k)
    /\ issuesDb[calls[k].issueId].assignedTo = calls[k].teamName

(***************************************************************************)
(* C21.  The commit of a claim.                                            *)
(***************************************************************************)
\* The four fields of a document as no claim has touched them.
C21_Unclaimed(doc) ==
  /\ doc.status = "open"
  /\ doc.assignedTo = NULL
  /\ doc.occupiedAt = NoInstant
  /\ doc.lastUpdated = NULL

\* The four fields as a committed claim leaves them.
C21_Claimed(doc) ==
  /\ doc.status = "occupied"
  /\ doc.assignedTo \in ALLOWED_TEAMS
  /\ doc.occupiedAt # NoInstant
  /\ doc.lastUpdated = "set"

\* C21: a committed claim writes status = occupied, assignedTo = the claiming
\* team, occupiedAt = now and lastUpdated = now in one step of the store: the
\* step that changes one of the four fields of an unclaimed issue sets all four,
\* for the team of the committing call, and every state of the store that a
\* reader may observe shows each issue with none or all of them written.
C21_AtomicCommit ==
  /\ [](\A i \in DOMAIN issuesDb : C21_Unclaimed(issuesDb[i]) \/ C21_Claimed(issuesDb[i]))
  /\ [][\A i \in DOMAIN issuesDb :
          C21_Unclaimed(issuesDb[i]) /\ issuesDb'[i] # issuesDb[i]
            => \E k \in CallIds :
                 /\ calls[k].issueId = i
                 /\ txCommits'[i] = txCommits[i] + 1
                 /\ issuesDb'[i] =
                      [issuesDb[i] EXCEPT !.status = "occupied",
                                          !.assignedTo = calls[k].teamName,
                                          !.occupiedAt = 0,
                                          !.lastUpdated = "set"]]_vars

\* A claim of issue I3 was committed.
C21_Committed ==
  /\ txCommits["I3"] = 1
  /\ C21_Claimed(issuesDb["I3"])

(***************************************************************************)
(* moveIssue and assignIssue (AppContext, lines 419-422 and 456-459): each *)
(* writes the one field it is given, on the document it is given.          *)
(***************************************************************************)
Statuses == {"open", "occupied", "closed"}

moveIssue(c, issueId, status) ==
  /\ issueId \in DOMAIN issues[c]
  /\ issuesDb' = updateIssue(issuesDb, issueId, [status |-> status])
  /\ issuesDirty' = AllDirty
  /\ UNCHANGED <<teamsDb, currentTeam, issues, teams, teamIssueCountCache, calls, invs,
                 teamsDirty, intervalAge, sweep, ticks, txCommits, deductions>>
  /\ UNCHANGED feed

assignIssue(c, issueId, teamName) ==
  /\ issueId \in DOMAIN issues[c]
  /\ issuesDb' = updateIssue(issuesDb, issueId, [assignedTo |-> teamName])
  /\ issuesDirty' = AllDirty
  /\ UNCHANGED <<teamsDb, currentTeam, issues, teams, teamIssueCountCache, calls, invs,
                 teamsDirty, intervalAge, sweep, ticks, txCommits, deductions>>
  /\ UNCHANGED feed

(***************************************************************************)
(* SpecAdmin: TeamBravo holds I1 and may close it, while the second client *)
(* moves and assigns the issues.                                           *)
(***************************************************************************)
InitAdmin ==
  InitWith("I1" :> HeldIssue("easy", "TeamBravo", 0) @@ "I3" :> OpenIssue("easy"),
           [t \in ALLOWED_TEAMS |-> TeamDoc(0)], Players)

NextAdmin ==
  \/ \E i \in DOMAIN issuesDb : closeIssue("c1", i)
  \/ \E i \in DOMAIN issuesDb, s \in Statuses : moveIssue("c2", i, s)
  \/ \E i \in DOMAIN issuesDb, t \in ALLOWED_TEAMS \cup {NULL} : assignIssue("c2", i, t)
  \/ FeedIssues("c1")

SpecAdmin == InitAdmin /\ [][NextAdmin]_vars

\* C22: in every state of the store, an issue has a team assigned exactly when
\* its status is occupied or closed.
C22_AssignedIffHeld ==
  \A i \in DOMAIN issuesDb :
    issuesDb[i].assignedTo # NULL <=> issuesDb[i].status \in {"occupied", "closed"}

\* C23: every occupied issue has its occupiedAt set, as the sweeper needs it to
\* expire the issue, and every open issue has none.
C23_OccupiedAtIffOccupied ==
  \A i \in DOMAIN issuesDb :
    /\ issuesDb[i].status = "occupied" => issuesDb[i].occupiedAt # NoInstant
    /\ issuesDb[i].status = "open" => issuesDb[i].occupiedAt = NoInstant

(***************************************************************************)
(* SpecCycle: TeamBravo holds the hard issue I1, which is overdue.  The    *)
(* team closes what its list shows as held, and the sweeper of the second  *)
(* client runs.                                                            *)
(***************************************************************************)
InitCycle ==
  InitWith("I1" :> HeldIssue("hard", "TeamBravo", MaxAge) @@ "I3" :> OpenIssue("easy"),
           [t \in ALLOWED_TEAMS |-> TeamDoc(3)], Players)

SweepingAt(c) == SweepFire(c) \/ SweepDeduct(c) \/ SweepReset(c)

NextCycle ==
  \/ \E i \in DOMAIN issuesDb : closeIssue("c1", i)
  \/ SweepingAt("c2")
  \/ Feed
  \/ Elapse(SWEEP_INTERVAL)

SpecCycle == InitCycle /\ [][NextCycle]_vars

(***************************************************************************)
(* SpecPoints: TeamBravo (3 points) holds the hard issue I1, which is      *)
(* overdue, and has closed the easy issue I2.  The sweeper of the first    *)
(* client runs while the second client merges PRs.                         *)
(***************************************************************************)
InitPoints ==
  InitWith("I1" :> HeldIssue("hard", "TeamBravo", MaxAge)
             @@ "I2" :> ClosedIssue("easy", "TeamBravo"),
           [t \in ALLOWED_TEAMS |-> TeamDoc(3)], Players)

NextPoints ==
  \/ \E i \in DOMAIN issuesDb : updatePrStatus("c2", i, "merged")
  \/ SweepingAt("c1")
  \/ FeedIssues("c1")
  \/ \E c \in Clients : FeedTeams(c)
  \/ Elapse(SWEEP_INTERVAL)

SpecPoints == InitPoints /\ [][NextPoints]_vars

\* C30: the status of a stored issue changes only from open to occupied, from
\* occupied to closed and from occupied to open.
C30_Transitions ==
  [][\A i \in DOMAIN issuesDb :
       issuesDb'[i].status # issuesDb[i].status
         => <<issuesDb[i].status, issuesDb'[i].status>>
              \in {<<"open", "occupied">>, <<"occupied", "closed">>, <<"occupied", "open">>}]_vars

\* C27: the stored points of every team are a non-negative integer.
C27_PointsNonNegative == \A t \in DOMAIN teamsDb : teamsDb[t].points \in Nat

\* A penalty has taken TeamBravo's points to the floor after a merge had raised
\* them in the store.
C27_AwardedAndFloored ==
  /\ issuesDb["I2"].prStatus = "merged"
  /\ deductions["I1"] >= 1
  /\ teamsDb["TeamBravo"].points = 0

(***************************************************************************)
(* C24, C25.  The quota cache.                                             *)
(***************************************************************************)
\* The client of call k has an entry for the call's team, sampled less than
\* CACHE_TTL ago.
C24_FreshEntry(k) ==
  LET cache == teamIssueCountCache[calls[k].client]
      team == calls[k].teamName
  IN team \in DOMAIN cache /\ cache[team].timestamp < CACHE_TTL

\* C24: an invocation lets the cache decide (it rejects for quota after getDoc, or
\* goes on to the transaction without a query) only when the entry of its team is
\* less than CACHE_TTL old; with no entry, or one that is CACHE_TTL old or older,
\* an invocation that passed the status check queries the store, and it reaches
\* the transaction only when the store's count is below the quota, which it
\* writes to the cache.
C24_FreshOrQueried ==
  [][\A k \in CallIds, a \in Attempts :
       LET c == calls[k].client
           team == calls[k].teamName
       IN /\ invs[k][a].pc = "getDoc" /\ invs'[k][a].pc = "tx"
               => C24_FreshEntry(k) /\ teamIssueCountCache[c][team].count < QUOTA
          /\ invs[k][a].pc = "getDoc" /\ invs'[k][a].pc = "done"
             /\ invs'[k][a].result = Failure(MsgQuota)
               => C24_FreshEntry(k) /\ teamIssueCountCache[c][team].count >= QUOTA
          /\ invs[k][a].pc = "getDoc" /\ invs'[k][a].pc \notin {"getDoc", "done"}
             /\ ~C24_FreshEntry(k)
               => invs'[k][a].pc = "query"
          /\ invs[k][a].pc = "query" /\ invs'[k][a].pc # "query"
               => IF teamOccupiedCount(issuesDb, team) < QUOTA
                    THEN /\ invs'[k][a].pc = "tx"
                         /\ teamIssueCountCache'[c][team].count
                              = teamOccupiedCount(issuesDb, team)
                    ELSE invs'[k][a].result = Failure(MsgQuota)
          /\ invs[k][a].pc # "tx" /\ invs'[k][a].pc = "tx"
               => invs[k][a].pc \in {"getDoc", "query"}]_vars

\* An invocation found an entry that was CACHE_TTL old and is querying the store.
C24_StaleEntryQueried ==
  \E k \in CallIds, a \in Attempts :
    /\ invs[k][a].pc = "query"
    /\ invs[k][a].cachedCount.hit
    /\ invs[k][a].cachedCount.timestamp >= CACHE_TTL

(***************************************************************************)
(* runTransaction, with its answer in flight: the store commits the        *)
(* transaction, and the promise resolves at the client later, after        *)
(* whatever else the client's event loop ran in between.  countAtCommit    *)
(* keeps the count the cache held for the team when the store committed    *)
(* (-1: no entry).                                                         *)
(***************************************************************************)
CommitTransaction(k, a) ==
  /\ invs[k][a].pc = "tx"
  /\ LET iid == calls[k].issueId
         c == calls[k].client
         team == calls[k].teamName
         cached == CacheGet(teamIssueCountCache[c], team)
         body == TransactionBody(iid \in DOMAIN issuesDb, issuesDb[iid], team)
     IN IF body.thrown
          THEN /\ InTime(k, a)
               /\ Return(k, a, LoopCatch(Error(NULL, body.message)))
               /\ UNCHANGED <<issuesDb, txCommits, deductions, issuesDirty>>
          ELSE /\ issuesDb' = updateIssue(issuesDb, iid, TransactionUpdate(team))
               /\ txCommits' = [txCommits EXCEPT ![iid] = @ + 1]
               /\ deductions' = [deductions EXCEPT ![iid] = 0]
               /\ issuesDirty' = AllDirty
               /\ invs' = [invs EXCEPT ![k][a].pc = "committed",
                                       ![k][a].countAtCommit =
                                          IF cached.hit THEN cached.count ELSE -1]
               /\ UNCHANGED <<calls, issues, intervalAge>>
  /\ UNCHANGED <<teamsDb, currentTeam, teams, teamIssueCountCache, sweep, ticks,
                 teamsDirty>>
  /\ UNCHANGED feed

\* Lines 610-619: the promise of runTransaction has resolved.
TransactionCommitted(k, a) ==
  /\ invs[k][a].pc = "committed"
  /\ InTime(k, a)
  /\ teamIssueCountCache' =
       [teamIssueCountCache EXCEPT
          ![calls[k].client] = CacheIncrement(@, calls[k].teamName, invs[k][a].ctAge)]
  /\ Return(k, a, Success)
  /\ UNCHANGED <<issuesDb, teamsDb, currentTeam, teams, sweep, ticks, txCommits,
                 deductions, issuesDirty, teamsDirty>>
  /\ UNCHANGED feed

(***************************************************************************)
(* SpecCache: TeamCharlie, which holds nothing, claims the open issues I3  *)
(* and I4 from one client; the answers of the store arrive in any order.   *)
(***************************************************************************)
InitCache ==
  InitWith("I3" :> OpenIssue("easy") @@ "I4" :> OpenIssue("hard"),
           [t \in ALLOWED_TEAMS |-> TeamDoc(0)], Players)

NextCache ==
  \/ \E k \in CallIds, i \in DOMAIN issuesDb : occupyIssue(k, "c2", i)
  \/ \E k \in CallIds, a \in Attempts : GetDoc(k, a)
  \/ \E k \in CallIds, a \in Attempts : Query(k, a)
  \/ \E k \in CallIds, a \in Attempts : CommitTransaction(k, a)
  \/ \E k \in CallIds, a \in Attempts : TransactionCommitted(k, a)
  \/ FeedIssues("c2")

SpecCache == InitCache /\ [][NextCache]_vars

\* C25: when a claim has succeeded, the cache of the client holds an entry for the
\* team whose count is one more than the count it held when the store committed
\* the claim.
C25_CountsTheCommit ==
  [][\A k \in CallIds, a \in Attempts :
       invs[k][a].pc = "committed" /\ invs'[k][a].pc = "done"
         => LET cache == teamIssueCountCache'[calls[k].client]
                team == calls[k].teamName
            IN /\ team \in DOMAIN cache
               /\ cache[team].count = invs[k][a].countAtCommit + 1]_vars

(***************************************************************************)
(* Sessions: initializeData, loginTeam and logoutTeam (AppContext, lines   *)
(* 71-105 and 229-258).                                                    *)
(***************************************************************************)
TEAM_PASSWORDS == "TeamBravo" :> "bravo123" @@ "TeamCharlie" :> "charlie123"

MsgNotRecognized == <<"team", "not", "recognized", "contact", "admin">>
MsgInvalidPassword ==
  <<"invalid", "password", "please", "check", "your", "team", "password">>
MsgAlreadyActive ==
  <<"this", "team", "is", "already", "active", "only", "one", "active", "session",
    "allowed">>
MsgTeamNotFound == <<"team", "not", "found">>

\* teams.some(t => t.name === teamName && t.active), on the client's list.
isActive(list, teamName) == teamName \in DOMAIN list /\ list[teamName].active

\* Lines 230-250: the error loginTeam returns, or <<>> when it logs the team in.
LoginCheck(list, teamName, password) ==
  IF teamName \notin ALLOWED_TEAMS THEN MsgNotRecognized
  ELSE IF TEAM_PASSWORDS[teamName] # password THEN MsgInvalidPassword
  ELSE IF isActive(list, teamName) THEN MsgAlreadyActive
  ELSE IF teamName \notin DOMAIN list THEN MsgTeamNotFound
  ELSE <<>>

\* The login page of a client where no team is logged in calls loginTeam; the
\* write of the active flag is sent without being awaited.
loginTeam(c, teamName, password) ==
  /\ currentTeam[c] = NULL
  /\ IF LoginCheck(teams[c], teamName, password) # <<>>
       THEN UNCHANGED <<currentTeam, teamsDb, teamsDirty, feed>>
       ELSE /\ currentTeam' = [currentTeam EXCEPT ![c] = teamName]
            /\ feed' = [feed EXCEPT ![c] = Resubscribed(@)]
            /\ teamsDb' = updateTeam(teamsDb, teamName, [active |-> TRUE])
            /\ teamsDirty' = AllDirty
  /\ UNCHANGED <<issuesDb, issues, teams, teamIssueCountCache, calls, invs, issuesDirty,
                 intervalAge, sweep, ticks, txCommits, deductions>>

logoutTeam(c) ==
  /\ currentTeam[c] # NULL
  /\ teamsDb' = updateTeam(teamsDb, currentTeam[c], [active |-> FALSE])
  /\ teamsDirty' = AllDirty
  /\ currentTeam' = [currentTeam EXCEPT ![c] = NULL]
  /\ feed' = [feed EXCEPT ![c] = Resubscribed(@)]
  /\ UNCHANGED <<issuesDb, issues, teams, teamIssueCountCache, calls, invs, issuesDirty,
                 intervalAge, sweep, ticks, txCommits, deductions>>

\* The page is loaded, at a client that has no call and no pass running: the state
\* of the provider and of the service module starts anew, the teams exist, and
\* every team that is active in the store is written inactive; the subscriptions
\* then deliver their first snapshots.
initializeData(c) ==
  /\ \A k \in CallIds : calls[k].client # c
  /\ sweep[c] = NoSweep
  /\ teamsDb' = [t \in DOMAIN teamsDb |-> Merge(teamsDb[t], [active |-> FALSE])]
  /\ currentTeam' = [currentTeam EXCEPT ![c] = NULL]
  /\ teams' = [teams EXCEPT ![c] = <<>>]
  /\ issues' = [issues EXCEPT ![c] = <<>>]
  /\ teamIssueCountCache' = [teamIssueCountCache EXCEPT ![c] = <<>>]
  /\ intervalAge' = [intervalAge EXCEPT ![c] = 0]
  /\ teamsDirty' = [d \in Clients |-> d = c \/ teamsDb' # teamsDb \/ teamsDirty[d]]
  /\ issuesDirty' = [issuesDirty EXCEPT ![c] = TRUE]
  /\ feed' = [feed EXCEPT ![c] = NoFeed]
  /\ UNCHANGED <<issuesDb, calls, invs, sweep, ticks, txCommits, deductions>>

(***************************************************************************)
(* SpecLogin: two clients, no team logged in; teams log in and out and     *)
(* pages are loaded again.                                                 *)
(***************************************************************************)
TeamNames == ALLOWED_TEAMS \cup {"TeamZulu"}
Passwords == {"bravo123", "charlie123"}

InitLogin ==
  InitWith("I3" :> OpenIssue("easy"), [t \in ALLOWED_TEAMS |-> TeamDoc(0)],
           [c \in Clients |-> NULL])

NextLogin ==
  \/ \E c \in Clients, t \in TeamNames, p \in Passwords : loginTeam(c, t, p)
  \/ \E c \in Clients : logoutTeam(c)
  \/ \E c \in Clients : initializeData(c)
  \/ Feed

SpecLogin == InitLogin /\ [][NextLogin]_vars

\* C26: no two clients are logged in as the same team.
C26_OneSessionPerTeam ==
  \A c, d \in Clients :
    c # d /\ currentTeam[c] # NULL => currentTeam[c] # currentTeam[d]

(***************************************************************************)
(* The listeners, as the SDK drives them: snapshots from the local cache,  *)
(* stream errors, and the re-subscription of subscribeToIssues.            *)
(***************************************************************************)
\* The SDK raises a snapshot with metadata.fromCache = true on the listeners of f:
\* the documents are those the client already has.  The callback of the teams
\* subscription sets the list anew (and with it the sweeper's interval) and, when
\* a team is logged in, currentTeam.
CacheSnapshot(c, f) ==
  /\ Live(c, f) >= 1
  /\ feed' = [feed EXCEPT ![c] = IF f = "teams" /\ currentTeam[c] # NULL
                                   THEN Resubscribed(Raise(@, f, TRUE))
                                   ELSE Raise(@, f, TRUE)]
  /\ intervalAge' = [intervalAge EXCEPT ![c] = IF f = "teams" THEN 0 ELSE @]
  /\ UNCHANGED <<issuesDb, teamsDb, currentTeam, issues, teams, teamIssueCountCache,
                 calls, invs, issuesDirty, teamsDirty, sweep, ticks, txCommits,
                 deductions>>

\* The stream of a listener of f fails: the listener is detached, and the error
\* callback, where there is one, sets the timer of the re-subscription.  (One
\* timer per collection is followed at a time.)
StreamError(c, f) ==
  /\ Live(c, f) >= 1
  /\ feed[c][f].timer = NoInstant
  /\ \E which \in {"tracked", "leaked"} :
       /\ feed[c][f][which] >= 1
       /\ feed' = [feed EXCEPT ![c][f][which] = @ - 1,
                               ![c][f].timer = IF resubscribes(f) THEN 0 ELSE NoInstant]
  /\ UNCHANGED <<issuesDb, teamsDb, currentTeam, issues, teams, teamIssueCountCache,
                 calls, invs, issuesDirty, teamsDirty, intervalAge, sweep, ticks,
                 txCommits, deductions>>

\* The timer fires: subscribeToIssues(callback) makes a new listener, whose handle
\* is dropped, and unsubscribes the listener that failed; the new listener gets
\* its first snapshot.
Resubscribe(c, f) ==
  /\ feed[c][f].timer # NoInstant
  /\ feed[c][f].timer >= RESUBSCRIBE_DELAY
  /\ feed' = [feed EXCEPT ![c][f].leaked = @ + 1, ![c][f].timer = NoInstant]
  /\ issuesDirty' = [issuesDirty EXCEPT ![c] = TRUE]
  /\ UNCHANGED <<issuesDb, teamsDb, currentTeam, issues, teams, teamIssueCountCache,
                 calls, invs, teamsDirty, intervalAge, sweep, ticks, txCommits,
                 deductions>>

(***************************************************************************)
(* SpecFeed: the listeners of the first client, where TeamBravo logs in    *)
(* and out, while the second client closes the issue I3.                   *)
(***************************************************************************)
InitFeed ==
  InitWith("I3" :> OpenIssue("easy"), [t \in ALLOWED_TEAMS |-> TeamDoc(0)],
           [c \in Clients |-> NULL])

NextFeed ==
  \/ moveIssue("c2", "I3", "closed")
  \/ loginTeam("c1", "TeamBravo", "bravo123")
  \/ logoutTeam("c1")
  \/ FeedIssues("c1")
  \/ FeedTeams("c1")
  \/ \E f \in Feeds : CacheSnapshot("c1", f)
  \/ \E f \in Feeds : StreamError("c1", f)
  \/ \E f \in Feeds : Resubscribe("c1", f)
  \/ Tick(RESUBSCRIBE_DELAY)

SpecFeed == InitFeed /\ [][NextFeed]_vars

\* C28: the callback of no subscription (issues, teams, repositories) is invoked
\* with a snapshot whose metadata say it comes from the local cache.
C28_NoCallbackFromCache ==
  \A c \in Clients, f \in Feeds : ~feed[c][f].calledFromCache

\* C29: a subscription whose stream failed is re-established after the backoff:
\* each collection has one attached listener, or none and the timer of its
\* re-subscription running.
C29_Reestablished ==
  \A c \in Clients, f \in Feeds :
    \/ Live(c, f) = 1
    \/ Live(c, f) = 0 /\ feed[c][f].timer # NoInstant

(***************************************************************************)
(* SpecStall: TeamCharlie's client claims the open issue I3 from a store    *)
(* that may answer late or never.  Time passes, and a timer that is  *)
(* due fires: the steps of the clock and of the client's event loop are    *)
(* eventually taken, the answers of the store need not be.                 *)
(***************************************************************************)
InitStall ==
  InitWith("I3" :> OpenIssue("easy"), [t \in ALLOWED_TEAMS |-> TeamDoc(0)], Players)

Wait(d) ==
  /\ Pass(d)
  /\ UNCHANGED ticks

NextStall ==
  \/ \E k \in CallIds, i \in DOMAIN issuesDb : occupyIssue(k, "c2", i)
  \/ \E k \in CallIds, a \in Attempts : GetDoc(k, a)
  \/ \E k \in CallIds, a \in Attempts : Query(k, a)
  \/ \E k \in CallIds, a \in Attempts : RunTransaction(k, a)
  \/ \E k \in CallIds : Timeout(k)
  \/ \E k \in CallIds : Retry(k)
  \/ Wait(20 * MINUTE)

FairnessStall ==
  /\ WF_vars(Wait(20 * MINUTE))
  /\ \A k \in CallIds : WF_vars(Timeout(k)) /\ WF_vars(Retry(k))

SpecStall == InitStall /\ [][NextStall]_vars /\ FairnessStall

\* C31: every call of occupyIssue that has started its attempts eventually
\* returns, whether or not the store answers; an attempt the wrapper has awaited
\* for TIMEOUT_MS is abandoned, which while attempts are left leads to the
\* backoff and a retry, and no call makes more than MAX_RETRIES + 1 attempts.
C31_AlwaysReturns ==
  /\ \A k \in CallIds : (calls[k].pc \in {"waiting", "backoff"}) ~> (calls[k].pc = "done")
  /\ [](\A k \in CallIds : calls[k].attempt <= MAX_RETRIES + 1)
  /\ [][\A k \in CallIds :
          /\ calls[k].pc = "waiting"
          /\ invs[k][calls[k].attempt].wrapAge >= TIMEOUT_MS
          /\ calls'[k] # calls[k]
          => IF calls[k].attempt <= MAX_RETRIES
               THEN calls'[k].pc = "backoff"
               ELSE /\ calls'[k].pc = "done"
                    /\ calls'[k].result = Failure(MsgAfterRetries)]_vars

\* A call has returned although the store answered none of its attempts.
C31_ReturnedUnanswered ==
  \E k \in CallIds :
    /\ calls[k].pc = "done"
    /\ calls[k].result = Failure(MsgAfterRetries)
    /\ \A a \in Attempts : invs[k][a].pc = "getDoc"

(***************************************************************************)
(* C32.  The quota at a retry.                                             *)
(***************************************************************************)
\* C32: the invocation a retry starts (attempt 2 and later) goes from getDoc to
\* the transaction without a query exactly when the cache entry of the team is
\* less than CACHE_TTL old at that moment; with an entry that is older, or none,
\* it queries the store, and reaches the transaction only from that query.
C32_RetryRequeries ==
  [][\A k \in CallIds, a \in Attempts \ {1} :
       /\ invs[k][a].pc = "getDoc" /\ invs'[k][a].pc \notin {"getDoc", "done"}
            => invs'[k][a].pc = IF C24_FreshEntry(k) THEN "tx" ELSE "query"
       /\ invs[k][a].pc = "query" /\ invs'[k][a].pc = "tx"
            => teamOccupiedCount(issuesDb, calls[k].teamName) < QUOTA
       /\ invs[k][a].pc # "tx" /\ invs'[k][a].pc = "tx"
            => invs[k][a].pc \in {"getDoc", "query"}]_vars

\* Of two retries, one found an entry past its TTL and queried the store, the
\* other found a fresh entry and went to its transaction without a query.
C32_BothRetries ==
  \E k1, k2 \in CallIds :
    /\ invs[k1][2].pc \in {"query", "tx"}
    /\ invs[k1][2].cachedCount.hit
    /\ invs[k1][2].cachedCount.timestamp >= CACHE_TTL
    /\ invs[k2][2].pc = "tx"
    /\ invs[k2][2].cachedCount.hit
    /\ invs[k2][2].cachedCount.timestamp < CACHE_TTL

(***************************************************************************)
(* SpecEvict: the coordinator is called again and again from one client,   *)
(* for TeamBravo, which holds I1, and for the issues I1 and I3, while time *)
(* passes.  occupyIssueTransaction ends with a block that deletes the      *)
(* cache entries older than CACHE_TTL on one call in ten (lines 737-745),  *)
(* but the block follows a try/catch of which every path returns: no       *)
(* invocation runs it, and no action below removes an entry.               *)
(***************************************************************************)
InitEvict ==
  InitWith("I1" :> HeldIssue("easy", "TeamBravo", 0) @@ "I3" :> OpenIssue("easy"),
           [t \in ALLOWED_TEAMS |-> TeamDoc(0)], Players)

\* The caller is done with the result of an invocation that has returned: the
\* slot serves the next call.
Dismiss(k) ==
  /\ calls[k].pc = "direct"
  /\ invs[k][1].pc = "done"
  /\ calls' = [calls EXCEPT ![k] = NoCall]
  /\ invs' = [invs EXCEPT ![k] = [a \in Attempts |-> NoInv]]
  /\ UNCHANGED <<issuesDb, teamsDb, currentTeam, issues, teams, teamIssueCountCache,
                 intervalAge, sweep, ticks, txCommits, deductions, issuesDirty,
                 teamsDirty, feed>>

Calling == \E k \in CallIds, i \in {"I1", "I3"} : occupyIssueTransaction(k, "c1", i, "TeamBravo")

Answering ==
  \E k \in CallIds, a \in Attempts : GetDoc(k, a) \/ Query(k, a) \/ RunTransaction(k, a)

NextEvict ==
  \/ Calling
  \/ Answering
  \/ \E k \in CallIds : Dismiss(k)
  \/ Wait(20 * MINUTE)

\* Calls keep being made and answered, and time passes.
FairnessEvict ==
  /\ WF_vars(Calling)
  /\ WF_vars(Answering)
  /\ WF_vars(Wait(20 * MINUTE))
  /\ \A k \in CallIds : WF_vars(Dismiss(k))

SpecEvict == InitEvict /\ [][NextEvict]_vars /\ FairnessEvict

\* C33: while calls keep being made, an entry of the cache that is past its TTL
\* is eventually gone from the cache (or replaced by a fresh one).
C33_StaleEntryEvicted ==
  \A c \in Clients, t \in ALLOWED_TEAMS :
    (t \in DOMAIN teamIssueCountCache[c] /\ teamIssueCountCache[c][t].timestamp >= CACHE_TTL)
      ~> (t \notin DOMAIN teamIssueCountCache[c]
            \/ teamIssueCountCache[c][t].timestamp < CACHE_TTL)

(***************************************************************************)
(* SpecTags: TeamBravo (3 points) has just claimed the issue I1, whose      *)
(* first tag is "docs"; the sweepers of the two clients run.               *)
(***************************************************************************)
InitTags ==
  InitWith("I1" :> HeldIssue("docs", "TeamBravo", 0),
           [t \in ALLOWED_TEAMS |-> TeamDoc(3)], Players)

NextTags ==
  \/ Sweeping
  \/ Feed
  \/ Tick(20 * MINUTE)

SpecTags == InitTags /\ [][NextTags]_vars

\* The interval of client c fires in this step.
C34_Fires(c) ==
  /\ sweep[c].phase = "idle"
  /\ intervalAge[c] >= SWEEP_INTERVAL
  /\ intervalAge'[c] = 0
  /\ issues' = issues /\ teams' = teams
  /\ issuesDirty' = issuesDirty /\ teamsDirty' = teamsDirty

\* C34: an occupied issue whose first tag is none of easy, medium, hard is taken
\* up by a pass exactly when the list shows it 40 minutes old or older; the pass
\* leaves the stored points of the team as they are and resets the issue to open
\* with assignedTo, occupiedAt and closedAt cleared.
C34_UnknownTag ==
  /\ [](teamsDb["TeamBravo"].points = 3)
  /\ [][\A c \in Clients :
          /\ C34_Fires(c)
               => (sweep'[c].phase = "deduct"
                     <=> /\ issues[c]["I1"].status = "occupied"
                         /\ issues[c]["I1"].occupiedAt >= 40 * MINUTE)
          /\ sweep[c].phase = "reset" /\ sweep'[c].phase # "reset"
               => /\ issuesDb'["I1"].status = "open"
                  /\ issuesDb'["I1"].assignedTo = NULL
                  /\ issuesDb'["I1"].occupiedAt = NoInstant
                  /\ issuesDb'["I1"].closedAt = NULL]_vars

\* A pass has expired I1: it is open again, and TeamBravo has its 3 points.
C34_ExpiredAtNoCost ==
  /\ issuesDb["I1"].status = "open"
  /\ issuesDb["I1"].assignedTo = NULL
  /\ deductions["I1"] >= 1
  /\ teamsDb["TeamBravo"].points = 3

(***************************************************************************)
(* C35.  The writes of a pass and the store.                               *)
(***************************************************************************)
\* C35: a pass deducts the penalty for an issue, and resets the issue, only when
\* the stored issue is occupied and overdue at the moment of the write.
C35_SweepsOnlyOverdue ==
  [][\A c \in Clients :
       /\ sweep[c].phase = "deduct" /\ sweep'[c].phase = "reset"
          /\ teamsDb' # teamsDb
            => Expired(issuesDb[Head(sweep[c].queue).id])
       /\ sweep[c].phase = "reset" /\ sweep'[c].phase # "reset"
            => Expired(issuesDb[Head(sweep[c].queue).id])]_vars

(***************************************************************************)
(* C36.  Concurrent changes of a team's points.                            *)
(***************************************************************************)
\* C36: no change of points is lost: a penalty is taken from the points the store
\* holds when it is written, and an award is added to the points the store holds
\* when it is written, whatever the list of the writing client shows.
C36_NoLostUpdate ==
  [][/\ \A c \in Clients :
          sweep[c].phase = "deduct" /\ sweep'[c].phase = "reset"
            => LET issue == Head(sweep[c].queue)
                   team == issue.assignedTo
               IN teamsDb'[team].points
                    = Max(0, teamsDb[team].points - penalties(issue.tag))
     /\ \A t \in DOMAIN teamsDb :
          teamsDb'[t].points > teamsDb[t].points
            => \E i \in DOMAIN issuesDb :
                 /\ issuesDb'[i].prStatus = "merged"
                 /\ issuesDb[i].assignedTo = t
                 /\ teamsDb'[t].points = teamsDb[t].points + pointsMap(issuesDb[i].tag)]_vars

(***************************************************************************)
(* C37.  What a rollback does to the other issues of the client's list.    *)
(***************************************************************************)
\* C37: when a call that had applied the optimistic update returns a failure, every
\* issue of the client's list other than the one the call was for stays as the list
\* showed it just before the rollback: the latest snapshot the client received and
\* the optimistic state of its other calls are kept.
C37_RollbackKeepsOthers ==
  [][\A k \in CallIds :
       /\ calls[k].pc = "waiting"
       /\ calls'[k].pc = "done"
       /\ ~calls'[k].result.success
       => \A i \in DOMAIN issues[calls[k].client] \ {calls[k].issueId} :
            issues'[calls[k].client][i] = issues[calls[k].client][i]]_vars

(***************************************************************************)
(* C38.  The handle subscribeToIssues returns.                             *)
(***************************************************************************)
\* A listener that the handles of the client's effect do not reach is attached
\* beside the listener of the running effect: it was made by the re-subscription of
\* a subscription whose handle the cleanup of an earlier effect has invoked.
C38_Outlived(c) ==
  /\ feed[c]["issues"].tracked = 1
  /\ feed[c]["issues"].leaked >= 1

\* C38: once the handle returned by subscribeToIssues has been invoked, no listener
\* of that subscription calls the callback: a server snapshot of the issues is
\* delivered to the client by the listener of its running subscription alone.
C38_SilentAfterUnsubscribe ==
  [][\A c \in Clients :
       issuesDirty[c] /\ ~issuesDirty'[c] /\ issues'[c] = issuesDb
         => ~C38_Outlived(c)]_vars

(***************************************************************************)
(* SpecGate: the two clients call occupyIssue, on line or off line, for    *)
(* the issues of the collection and for one their lists do not have; the   *)
(* team of the second client may log out.                                  *)
(***************************************************************************)
InitGate ==
  InitWith("I1" :> HeldIssue("easy", "TeamBravo", 0)
             @@ "I2" :> HeldIssue("medium", "TeamBravo", 0)
             @@ "I3" :> OpenIssue("easy") @@ "I4" :> OpenIssue("hard"),
           [t \in ALLOWED_TEAMS |-> TeamDoc(0)], Players)

NextGate ==
  \/ \E k \in CallIds, c \in Clients, i \in DOMAIN issuesDb \cup {"I5"},
        onLine \in BOOLEAN : occupyIssueWith(k, c, i, onLine)
  \/ \E k \in CallIds, a \in Attempts : GetDoc(k, a)
  \/ \E k \in CallIds, a \in Attempts : Query(k, a)
  \/ \E k \in CallIds, a \in Attempts : RunTransaction(k, a)
  \/ \E c \in Clients : FeedIssues(c)
  \/ logoutTeam("c2")

SpecGate == InitGate /\ [][NextGate]_vars

\* The call that starts in this step meets one of the five conditions on the
\* state of its client: no team logged in, off line, the issue not in the list,
\* the issue not open in the list, three issues occupied by the team in the list.
C39_Barred(k) ==
  LET c == calls'[k].client
      i == calls'[k].issueId
  IN \/ currentTeam[c] = NULL
     \/ ~calls'[k].onLine
     \/ i \notin DOMAIN issues[c]
     \/ issues[c][i].status # "open"
     \/ teamOccupiedCount(issues[c], currentTeam[c]) >= QUOTA

\* C39: a call of occupyIssue that meets one of the five conditions returns a failure
\* at once: no invocation of the coordinator is started, and the client's issue list,
\* the store and the cache of counts are as they were.
C39_RejectedLocally ==
  [][\A k \in CallIds :
       calls[k].pc = "idle" /\ calls'[k].pc # "idle" /\ C39_Barred(k)
         => /\ calls'[k].pc = "done"
            /\ ~calls'[k].result.success
            /\ calls'[k].result.error # <<>>
            /\ invs' = invs
            /\ issues' = issues
            /\ issuesDb' = issuesDb
            /\ teamsDb' = teamsDb
            /\ txCommits' = txCommits
            /\ teamIssueCountCache' = teamIssueCountCache]_vars

\* A team that holds two issues has a claim in flight, which its list shows as the
\* third, and its next call, made on line for an open issue, was rejected for the
\* quota: no invocation was started for it and the list shows that issue open.
C39_RejectedForQuota ==
  \E k, j \in CallIds :
    /\ calls[j].pc = "waiting"
    /\ calls[k].pc = "done"
    /\ calls[k].client = calls[j].client
    /\ calls[k].onLine
    /\ calls[k].result = Failure(MsgQuota)
    /\ \A a \in Attempts : invs[k][a].pc = "none"
    /\ issues[calls[k].client][calls[k].issueId].status = "open"

====
